---- MODULE Spec2Model ----
(***************************************************************************)
(* Model of the qBittorrent Web API client (package qbtapi): the request   *)
(* builder, the session/auth orchestrator (requestExecute with its         *)
(* transparent relogin-and-replay), the response extractor and the         *)
(* endpoint methods that drive them.                                       *)
(*                                                                         *)
(* One logical call is one endpoint-level invocation of requestExecute.    *)
(* Each call owns a stack of requestExecute/Login frames; the transport    *)
(* (http.Client.Do) and the remote server are the environment.             *)
(***************************************************************************)
EXTENDS Integers, Sequences, FiniteSets, TLC

(***************************************************************************)
(* Bounds of the model.                                                    *)
(***************************************************************************)
\* number of calls that may run concurrently on one Client (SpecConc)
NumCalls == 2
\* number of distinct response payloads the server may send
NumBodies == 2

(***************************************************************************)
(* Program constants.                                                      *)
(***************************************************************************)
StatusOK == 200
StatusForbidden == 403
\* the statuses the server answers with besides 200 and 403
OtherStatuses == {404, 500}

apiPrefix == "api/v2"
contentTypeHeaderFormURL == "application/x-www-form-urlencoded"
contentTypeHeaderTextPlain == "text/plain"
contentTypeHeaderTextPlanUTF8 == "text/plain; charset=UTF-8"
contentTypeHeaderJSON == "application/json"
contentTypeMultipart == "multipart/form-data"
contentTypeHTML == "text/html"

Procs == 1..NumCalls
Statuses == {StatusOK, StatusForbidden} \cup OtherStatuses

(***************************************************************************)
(* Parameter maps (map[string]string, possibly nil) and their encoding.    *)
(* A value is a sequence of one-character strings.                         *)
(***************************************************************************)
NilParams == [isNil |-> TRUE, m |-> <<>>]

MapOf(f) == [isNil |-> FALSE, m |-> f]

\* the order url.Values.Encode sorts the keys in
KeyOrder == <<"", "category", "filter", "hash", "hashes", "json", "limit", "offset",
              "password", "reverse", "sort", "tag", "username">>

KeyIndex(k) == CHOOSE i \in 1..Len(KeyOrder) : KeyOrder[i] = k

RECURSIVE SortedKeys(_)
SortedKeys(ks) ==
    IF ks = {} THEN <<>>
    ELSE LET k == CHOOSE x \in ks : \A y \in ks : KeyIndex(x) <= KeyIndex(y)
         IN <<k>> \o SortedKeys(ks \ {k})

\* url.QueryEscape on one character
EscapeChar(c) ==
    CASE c = " " -> <<"+">>
      [] c = "&" -> <<"%", "2", "6">>
      [] c = "=" -> <<"%", "3", "D">>
      [] c = "{" -> <<"%", "7", "B">>
      [] c = "}" -> <<"%", "7", "D">>
      [] OTHER -> <<c>>

RECURSIVE QueryEscape(_)
QueryEscape(s) ==
    IF s = <<>> THEN <<>> ELSE EscapeChar(Head(s)) \o QueryEscape(Tail(s))

\* a key as a sequence of characters (keys of the model are single words)
KeyChars(k) == IF k = "" THEN <<>> ELSE <<k>>

RECURSIVE EncodePairs(_, _)
EncodePairs(m, keys) ==
    IF keys = <<>> THEN <<>>
    ELSE LET k == Head(keys)
             one == KeyChars(k) \o <<"=">> \o QueryEscape(m[k])
         IN IF Len(keys) = 1 THEN one
            ELSE one \o <<"&">> \o EncodePairs(m, Tail(keys))

\* url.Values.Encode: key=value pairs, sorted by key, values escaped
ValuesEncode(m) == EncodePairs(m, SortedKeys(DOMAIN m))

\* the switch of requestBuild that chooses the encoding of the parameters
EncodeParameters(parameters) ==
    LET m == parameters.m
    IN CASE Cardinality(DOMAIN m) = 1 /\ "" \in DOMAIN m /\ m[""] # <<>> -> m[""]
         [] Cardinality(DOMAIN m) = 1 /\ "json" \in DOMAIN m /\ m["json"] # <<>> ->
                <<"json", "=">> \o m["json"]
         [] OTHER -> ValuesEncode(m)

(***************************************************************************)
(* http.Request as requestBuild leaves it.                                 *)
(*   body      the bytes a fresh read of Body yields                       *)
(*   hasBody   Body is a reader holding data (nil and http.NoBody: FALSE)  *)
(*   consumed  the reader behind Body has been read to its end             *)
(*   getBody   GetBody is set (non-nil)                                    *)
(***************************************************************************)
\* path.Join(requestURL.Path, apiPrefix, APIName, APIMethodName)
JoinPath(APIName, APIMethodName) == <<apiPrefix, APIName, APIMethodName>>

\* http.NewRequestWithContext: GetBody and the content length are set only
\* for the body types it knows (here *strings.Reader); a zero-length reader
\* is replaced by http.NoBody with a GetBody that returns NoBody.
NewRequestWithContext(method, path, query, bodyGiven, bodyBytes) ==
    [method   |-> method,
     path     |-> path,
     query    |-> query,
     body     |-> IF bodyGiven THEN bodyBytes ELSE <<>>,
     hasBody  |-> bodyGiven /\ bodyBytes # <<>>,
     consumed |-> FALSE,
     getBody  |-> bodyGiven,
     ctype    |-> "",
     clen     |-> -1,
     origin   |-> FALSE]

requestBuild(method, APIName, APIMethodName, parameters) ==
    LET encodedParameters ==
            IF parameters.isNil THEN <<>> ELSE EncodeParameters(parameters)
        query == IF ~parameters.isNil /\ method = "GET"
                 THEN encodedParameters ELSE <<>>
        bodyGiven == ~parameters.isNil /\ method = "POST"
        request == NewRequestWithContext(method, JoinPath(APIName, APIMethodName),
                                         query, bodyGiven, encodedParameters)
    IN IF bodyGiven
       THEN [request EXCEPT !.ctype = contentTypeHeaderFormURL,
                            !.clen = Len(encodedParameters)]
       ELSE request

(***************************************************************************)
(* Errors.  An error is a cause under a chain of fmt.Errorf layers,        *)
(* outermost first; a layer records whether it wraps with %w.              *)
(***************************************************************************)
NoErr == [kind |-> "none", status |-> 0, chain |-> <<>>]

HTTPError(status) == [kind |-> "http", status |-> status, chain |-> <<>>]

\* faulty variant: the violation is reported as an error of no kind of its own
InternalErrorUntyped == [kind |-> "text", status |-> 0, chain |-> <<>>]

\* InternalError(fmt.Sprintf(...))
InternalError == [kind |-> "internal", status |-> 0, chain |-> <<>>]

\* the error http.Client.Do returns when the round trip fails
TransportError == [kind |-> "transport", status |-> 0, chain |-> <<>>]

\* the context's error, returned by Do and by reads of a response body
ContextError == [kind |-> "context", status |-> 0, chain |-> <<>>]

ReadError == [kind |-> "read", status |-> 0, chain |-> <<>>]

DecodeError == [kind |-> "decode", status |-> 0, chain |-> <<>>]

IsErr(err) == err.kind # "none"

\* faulty variant: fmt.Errorf("msg: %v", err), which keeps the text only
WrapText(msg, err) == [err EXCEPT !.chain = <<[msg |-> msg, w |-> FALSE]>> \o @]

\* fmt.Errorf("msg: %w", err)
Wrap(msg, err) == [err EXCEPT !.chain = <<[msg |-> msg, w |-> TRUE]>> \o @]

\* errors.As(err, &HTTPError): walk the Unwrap chain down to the cause
ErrorsAsHTTP(err) ==
    IF err.kind = "http" /\ \A i \in 1..Len(err.chain) : err.chain[i].w
    THEN err.status ELSE 0

(***************************************************************************)
(* Responses and the response extractor.                                   *)
(***************************************************************************)
\* the Content-Type of an answer; "" is an answer without the header
ContentTypes == {contentTypeHeaderTextPlain, contentTypeHeaderTextPlanUTF8,
                 contentTypeHeaderJSON, contentTypeHTML, ""}

\* what reading the body gives: its bytes, bytes that are no JSON at all,
\* JSON of another shape than the target, or a failing read
BodyKinds == {"ok", "syntax", "mismatch", "ioerr"}

Contents == [ctype : ContentTypes, kind : BodyKinds, id : 1..NumBodies]

\* the bodies that come with a non-200 answer (never looked at by the client)
ErrorContents == [ctype : {contentTypeHeaderTextPlain}, kind : {"ok"}, id : 1..NumBodies]

NoContent == [ctype |-> "", kind |-> "none", id |-> 0]

\* the kinds of output target: nil, a non-pointer, *string, *struct, *[]T, *int
OutKinds == {"nil", "value", "string", "struct", "slice", "int"}

\* the caller's output target before the call
ZeroValue == [form |-> "zero", id |-> 0, whole |-> TRUE]

\* faulty variant: a nil output is handled like any other target
OutputAbsentNever(output) == FALSE

\* output == nil: the caller does not care about the body
OutputAbsent(output) == output = "nil"

requestExtract(content, output, cur) ==
    CASE OutputAbsent(output) -> [err |-> NoErr, out |-> cur]
      [] output = "value" -> [err |-> InternalError, out |-> cur]
      [] output \notin {"nil", "value"}
         /\ content.ctype \in {contentTypeHeaderTextPlain, contentTypeHeaderTextPlanUTF8} ->
            IF output # "string" THEN [err |-> InternalError, out |-> cur]
            ELSE IF content.kind = "ioerr"
            THEN [err |-> Wrap("reading answer body failed", ReadError), out |-> cur]
            ELSE [err |-> NoErr,
                  out |-> [form |-> "string", id |-> content.id, whole |-> TRUE]]
      [] output \notin {"nil", "value"} /\ content.ctype = contentTypeHeaderJSON ->
            IF output \notin {"struct", "slice"} THEN [err |-> InternalError, out |-> cur]
            ELSE CASE content.kind = "ok" ->
                        [err |-> NoErr,
                         out |-> [form |-> "json", id |-> content.id, whole |-> TRUE]]
                   [] content.kind = "mismatch" ->
                        [err |-> Wrap("decoding response body as JSON failed", DecodeError),
                         out |-> [form |-> "json", id |-> content.id, whole |-> FALSE]]
                   [] content.kind = "syntax" ->
                        [err |-> Wrap("decoding response body as JSON failed", DecodeError),
                         out |-> cur]
                   [] OTHER ->
                        [err |-> Wrap("decoding response body as JSON failed", ReadError),
                         out |-> cur]
      [] OTHER -> [err |-> InternalError, out |-> cur]

(***************************************************************************)
(* State.                                                                  *)
(***************************************************************************)
VARIABLES
    pc,         \* per call: "off", "idle", "running", "done"
    call,       \* per call: the endpoint invoked and its arguments
    request,    \* per call: the *http.Request of the call (shared by the replay)
    stack,      \* per call: the requestExecute / Login frames, outermost first
    sent,       \* per call: the requests put on the wire, in order
    events,     \* per call: sends, responses, body closes, cancellation, in order
    cancelled,  \* per call: the caller's context is done
    output,     \* per call: the value behind the caller's output target
    result,     \* per call: how the call ended
    client,     \* the Client: user, password and the URL object url points to
    heap        \* the URL objects: the caller's, the client's, requestBuild's

vars == <<pc, call, request, stack, sent, events, cancelled, output, result,
          client, heap>>

(***************************************************************************)
(* The Client and the URL objects.  A *url.URL is the name of an object of *)
(* the heap; a url.URL value is its scheme, host and path, the path being  *)
(* the list of its elements.                                               *)
(***************************************************************************)
\* faulty variant: the client keeps the pointer the caller passed
copiedURLShared(apiEndpoint) == apiEndpoint

\* copiedURL, err := url.Parse(apiEndpoint.String()): an object of its own
copiedURL(apiEndpoint) == "copiedURL"

\* New: the heap once the URL is copied, and the Client
New(h, apiEndpoint, user, password) ==
    [heap |-> [h EXCEPT ![copiedURL(apiEndpoint)] = h[apiEndpoint]],
     c |-> [user |-> user, password |-> password, url |-> copiedURL(apiEndpoint)]]

\* requestURL := *c.url: the local variable is an object of its own
requestURL(c) == "requestURL"

\* the first three statements of requestBuild on Client c, then the request:
\* the heap once requestURL.Path is assigned, and the request built
requestBuildOn(h, c, method, APIName, APIMethodName, parameters) ==
    LET copied == [h EXCEPT ![requestURL(c)] = h[c.url]]
        joined == copied[requestURL(c)].Path \o JoinPath(APIName, APIMethodName)
        after == [copied EXCEPT ![requestURL(c)].Path = joined]
    IN [heap |-> after,
        request |-> [requestBuild(method, APIName, APIMethodName, parameters)
                        EXCEPT !.path = after[requestURL(c)].Path]]

\* the URL values of the model: with and without a base path
URLValues == [Scheme : {"http"}, Host : {"h"}, Path : {<<>>, <<"qbt">>}]

\* an object that is not allocated yet
NoObject == [Scheme |-> "", Host |-> "", Path |-> <<>>]

\* the heap before New: the caller's URL, and no other object yet
HeapOf(u) == [apiEndpoint |-> u, copiedURL |-> NoObject, requestURL |-> NoObject]

\* the client and the heap of the specifications that run on one Client
TheClient == New(HeapOf([Scheme |-> "http", Host |-> "h", Path |-> <<>>]),
                 "apiEndpoint", <<"u">>, <<"p", "&">>)

(***************************************************************************)
(* The calls.  An endpoint method builds its request with requestBuild     *)
(* and hands it to requestExecute with an output target and autoAuth.      *)
(***************************************************************************)
HashParams == MapOf([k \in {"hash"} |-> <<"a", "b">>])

JSONParams == MapOf([k \in {"json"} |-> <<"{", "x", "}">>])

Credentials == MapOf([k \in {"username", "password"} |->
                        IF k = "username" THEN <<"u">> ELSE <<"p", "&">>])

EmptyParams == MapOf(<<>>)

CallOf(name, req, out, autoAuth) ==
    [name |-> name, req |-> req, out |-> out, autoAuth |-> autoAuth]

GetApplicationVersion ==
    CallOf("GetApplicationVersion", requestBuild("GET", "app", "version", NilParams),
           "string", TRUE)

GetBuildInfo ==
    CallOf("GetBuildInfo", requestBuild("GET", "app", "buildInfo", NilParams),
           "struct", TRUE)

Shutdown ==
    CallOf("Shutdown", requestBuild("POST", "app", "shutdown", NilParams), "nil", TRUE)

GetTorrentList ==
    CallOf("GetTorrentList", requestBuild("GET", "torrents", "info", EmptyParams),
           "slice", TRUE)

GetTorrentGenericProperties ==
    CallOf("GetTorrentGenericProperties",
           requestBuild("GET", "torrents", "properties", HashParams), "struct", TRUE)

\* the multipart payload of AddNewTorrents (one URL, no file, no option):
\* the boundary, the header of the urls field and its value; the writer is
\* never closed, so no closing boundary follows
MultipartPayload == <<"--b", "urls", "magnet">>

\* AddNewTorrents: the request is built without parameters, then the headers
\* and request.Body are set by hand; GetBody stays as requestBuild left it
AddNewTorrents ==
    LET req == requestBuild("POST", "torrents", "add", NilParams)
    IN CallOf("AddNewTorrents",
              [req EXCEPT !.ctype = contentTypeMultipart,
                          !.clen = Len(MultipartPayload),
                          !.body = MultipartPayload,
                          !.hasBody = TRUE],
              "nil", TRUE)

\* Login: the request Login builds, with its Origin header
LoginRequest ==
    [requestBuild("POST", "auth", "login", Credentials) EXCEPT !.origin = TRUE]

\* faulty variant: Login and Logout execute with auto-authentication enabled
AuthAutoAuthEnabled == TRUE

\* the autoAuth argument Login and Logout pass to requestExecute
AuthAutoAuth == FALSE

Login == CallOf("Login", LoginRequest, "nil", AuthAutoAuth)

Logout ==
    CallOf("Logout", requestBuild("GET", "auth", "logout", NilParams), "nil", AuthAutoAuth)

Endpoints == {GetApplicationVersion, GetBuildInfo, Shutdown, GetTorrentList,
              GetTorrentGenericProperties, AddNewTorrents, Login, Logout}

\* requestExecute on any request requestBuild builds, with any output target
DirectCalls ==
    {CallOf("requestExecute", requestBuild(method, "app", "x", params), out, autoAuth) :
        method \in {"GET", "POST"},
        params \in {NilParams, EmptyParams, HashParams, JSONParams},
        out \in OutKinds, autoAuth \in BOOLEAN}

Calls == Endpoints \cup DirectCalls

\* the calls of the concurrent specification
ConcCalls == {GetApplicationVersion, Logout,
              CallOf("requestExecute", requestBuild("POST", "app", "x", HashParams),
                     "string", TRUE)}

NoCall == CallOf("", requestBuild("GET", "", "", NilParams), "nil", FALSE)

(***************************************************************************)
(* AddNewTorrents on any arguments: its checks, its payload, its request.  *)
(* files is the set of file names, urls a list of parsed URLs (Scheme,     *)
(* Host, Path, and whether the query has an xt parameter), options is nil  *)
(* or the options set by the caller.                                       *)
(***************************************************************************)
\* strings.Join(elems, sep)
RECURSIVE Join(_, _)
Join(elems, sep) ==
    IF elems = <<>> THEN <<>>
    ELSE IF Len(elems) = 1 THEN elems[1]
    ELSE elems[1] \o sep \o Join(Tail(elems), sep)

\* an error made by fmt.Errorf without a wrapped cause
ValidationError(msg) == [kind |-> "validation", status |-> 0, chain |-> <<>>, msg |-> msg]

URLOf(scheme, host, path, xt) == [Scheme |-> scheme, Host |-> host, Path |-> path, xt |-> xt]

\* URL.String
URLString(u) == <<u.Scheme, ":", u.Host, u.Path, IF u.xt THEN "?xt" ELSE "">>

\* the switch on tURL.Scheme in torrentAddGeneratePayload
CheckURL(u) ==
    CASE u.Scheme \in {"http", "https"} ->
            IF u.Host = "" THEN ValidationError("missing host")
            ELSE IF u.Path = "" THEN ValidationError("missing path")
            ELSE NoErr
      [] u.Scheme = "magnet" ->
            IF u.Host # "" THEN ValidationError("magnet URL should not have a host")
            ELSE IF u.Path # "" THEN ValidationError("magnet URL should not have a path")
            ELSE IF ~u.xt THEN ValidationError("magnet URI should have an xt parameter")
            ELSE NoErr
      [] u.Scheme = "bc" ->
            IF u.Host # "bt" THEN ValidationError("invalid host for bc protocol") ELSE NoErr
      [] OTHER -> ValidationError("unsupported protocol")

\* the error of the first URL that fails its check
RECURSIVE CheckURLs(_)
CheckURLs(urls) ==
    IF urls = <<>> THEN NoErr
    ELSE IF IsErr(CheckURL(Head(urls))) THEN CheckURL(Head(urls))
    ELSE CheckURLs(Tail(urls))

\* the option fields torrentAddGeneratePayload writes, in its order; the
\* model's options hold their values in wire form
OptionKeys ==
    <<"savepath", "category", "tags", "skip_checking", "paused", "root_folder",
      "rename", "upLimit", "dlLimit", "ratioLimit", "seedingTimeLimit", "autoTMM",
      "sequentialDownload", "firstLastPiecePrio">>

NilOptions == [isNil |-> TRUE, set |-> <<>>]

\* options with the fields of keys set
OptionsOf(set) == [isNil |-> FALSE, set |-> set]

RECURSIVE OptionParts(_, _)
OptionParts(options, keys) ==
    IF keys = <<>> THEN <<>>
    ELSE (IF Head(keys) \in DOMAIN options.set
          THEN <<[kind |-> "field", name |-> Head(keys), value |-> options.set[Head(keys)]]>>
          ELSE <<>>) \o OptionParts(options, Tail(keys))

\* quoteEscaper.Replace: backslashes and double quotes get a backslash
RECURSIVE quoteEscaper(_)
quoteEscaper(str) ==
    IF str = <<>> THEN <<>>
    ELSE (IF Head(str) \in {"\\", "\""} THEN <<"\\", Head(str)>> ELSE <<Head(str)>>)
         \o quoteEscaper(Tail(str))

\* createBtFormFile: the header of a part that holds a torrent file
createBtFormFile(filename) ==
    [kind |-> "file", name |-> "torrents", filename |-> quoteEscaper(filename),
     ctype |-> "application/x-bittorrent"]

\* multipart.Writer.CreateFormFile: the header of a part that holds a file
CreateFormFile(fieldname, filename) ==
    [kind |-> "file", name |-> fieldname, filename |-> quoteEscaper(filename),
     ctype |-> "application/octet-stream"]

\* the parts of the files, in the order the map is ranged over; a file name
\* is a sequence of characters
RECURSIVE FileParts(_)
FileParts(files) ==
    IF files = {} THEN <<>>
    ELSE LET f == CHOOSE x \in files : TRUE
         IN <<CreateFormFile("torrents", f)>> \o FileParts(files \ {f})

RECURSIVE strURLs(_)
strURLs(urls) ==
    IF urls = <<>> THEN <<>> ELSE <<URLString(Head(urls))>> \o strURLs(Tail(urls))

\* torrentAddGeneratePayload: the error, or the parts written to the payload
torrentAddGeneratePayload(files, urls, options) ==
    LET err == CheckURLs(urls)
        parts == FileParts(files)
                 \o <<[kind |-> "field", name |-> "urls",
                       value |-> Join(strURLs(urls), <<"\n">>)]>>
                 \o (IF options.isNil THEN <<>> ELSE OptionParts(options, OptionKeys))
    IN [err |-> err, payload |-> IF IsErr(err) THEN <<>> ELSE parts]

\* faulty variant: the length declared does not count the last part
BufferLenShort(payload) == Len(payload) - 1

\* payload.Len()
BufferLen(payload) == Len(payload)

\* faulty variant: the arguments are not checked for being empty
NoFilesOrURLsUnchecked(files, urls) == FALSE

\* len(files) == 0 && len(urls) == 0
NoFilesOrURLs(files, urls) == files = {} /\ urls = <<>>

\* AddNewTorrents up to its requestExecute: the error it returns before any
\* request is made, or the call it makes
AddNewTorrentsWith(files, urls, options) ==
    LET gen == torrentAddGeneratePayload(files, urls, options)
        req == requestBuild("POST", "torrents", "add", NilParams)
        args == [files |-> files, urls |-> urls, options |-> options]
    IN IF NoFilesOrURLs(files, urls)
       THEN [err |-> ValidationError("no files or URLs provided"),
             call |-> [name |-> "AddNewTorrents", req |-> NoCall.req, out |-> "nil",
                       autoAuth |-> TRUE, args |-> args]]
       ELSE IF IsErr(gen.err)
       THEN [err |-> Wrap("payload generation failure", gen.err),
             call |-> [name |-> "AddNewTorrents", req |-> NoCall.req, out |-> "nil",
                       autoAuth |-> TRUE, args |-> args]]
       ELSE [err |-> NoErr,
             call |-> [name |-> "AddNewTorrents",
                       req |-> [req EXCEPT !.ctype = contentTypeMultipart,
                                           !.clen = BufferLen(gen.payload),
                                           !.body = gen.payload,
                                           !.hasBody = TRUE],
                       out |-> "nil", autoAuth |-> TRUE, args |-> args]]

(***************************************************************************)
(* Frames.                                                                 *)
(*   role      "first", "login" (Login and its requestExecute), "replay"   *)
(*   at        "do": about to call c.client.Do; "wait": inside Do;         *)
(*             "login": inside c.Login; "replay": inside the recursive call*)
(*   resp      the frame's response body: "none", "open", "closed"         *)
(*   ctx       the frame's context: "call" is the caller's context         *)
(***************************************************************************)
Frame(role, autoAuth, out, ctx) ==
    [role |-> role, autoAuth |-> autoAuth, out |-> out, ctx |-> ctx,
     at |-> "do", resp |-> "none", content |-> NoContent]

Top(stk) == stk[Len(stk)]

Pop(stk) == SubSeq(stk, 1, Len(stk) - 1)

SetTop(stk, f) == [stk EXCEPT ![Len(stk)] = f]

\* the request a frame sends
ReqOf(f, req) == IF f.role = "login" THEN LoginRequest ELSE req

\* faulty variant: the body is left as it is
CloseBodyOmitted(f) == f

\* response.Body.Close()
CloseBody(f) == IF f.resp = "open" THEN [f EXCEPT !.resp = "closed"] ELSE f

\* faulty variant: the close is not deferred
NoDeferredClose(f) == f

\* defer response.Body.Close(), run when the frame returns or panics
DeferredClose(f) == CloseBody(f)

CloseEvents(before, after) ==
    IF before.resp = "open" /\ after.resp = "closed"
    THEN <<<<"close", before.role>>>> ELSE <<>>

\* faulty variant: Login runs under a context of its own
LoginContextBackground(ctx) == "background"

\* the context c.Login is called with: request.Context()
LoginContext(ctx) == ctx

\* faulty variant: the recursive call keeps auto-authentication enabled
ReplayAutoAuthKept == TRUE

\* the autoAuth argument of the recursive requestExecute
ReplayAutoAuth == FALSE

\* faulty variant: the recursive call is made without the caller's output
ReplayOutputDropped(out) == "nil"

\* the output argument of the recursive requestExecute
ReplayOutput(out) == out

\* request.Body, err = request.GetBody(): a fresh reader over the same bytes
GetBody(req) == [req EXCEPT !.consumed = FALSE]

\* faulty variant: the error of Do is returned as it is
DoFailureBare(err) == err

\* what requestExecute returns when c.client.Do fails
DoFailure(err) == Wrap("HTTP request failure", err)

\* what requestExecute returns for a status that is neither 200 nor 403
StatusFailure(status) == HTTPError(status)

\* faulty variant: the 403 of a call that may not log in is not reported
ForbiddenFailureLost(status) == NoErr

\* what requestExecute returns for a 403 when autoAuth is false
ForbiddenFailure(status) == HTTPError(status)

\* the endpoint method's wrapping of requestExecute's error
EndpointReturn(err) ==
    IF IsErr(err) THEN Wrap("executing request failed", err) ELSE NoErr

(***************************************************************************)
(* Returning.  st is the call's [stack, req, ev]; the top frame returns    *)
(* err.  A frame that called Login goes on at its line after the call; a   *)
(* frame that made the recursive call returns what that call returned.     *)
(***************************************************************************)
RECURSIVE Panic(_)
Panic(st) ==
    IF st.stack = <<>> THEN [st EXCEPT !.fin = "panic"]
    ELSE LET f == Top(st.stack)
             g == DeferredClose(f)
         IN Panic([st EXCEPT !.stack = Pop(st.stack),
                             !.ev = @ \o CloseEvents(f, g),
                             !.leak = @ \cup (IF g.resp = "open" THEN {f.role} ELSE {})])

RECURSIVE Return(_, _)
Return(st, err) ==
    LET f == Top(st.stack)
        g == DeferredClose(f)
        rest == Pop(st.stack)
        st2 == [st EXCEPT !.stack = rest,
                          !.ev = @ \o CloseEvents(f, g),
                          !.leak = @ \cup (IF g.resp = "open" THEN {f.role} ELSE {})]
    IN IF rest = <<>>
       THEN [st2 EXCEPT !.fin = IF IsErr(err) THEN "error" ELSE "ok",
                        !.err = EndpointReturn(err)]
       ELSE IF Top(rest).at = "login"
       THEN LET lerr == EndpointReturn(err)
            IN IF IsErr(lerr)
               THEN Return(st2, Wrap("auto login failed", lerr))
               ELSE IF ~st.req.getBody
               THEN Panic(st2)
               ELSE LET caller == Top(rest)
                    IN [st2 EXCEPT
                          !.req = GetBody(st.req),
                          !.stack = SetTop(rest, [caller EXCEPT !.at = "replay"])
                                    \o <<Frame("replay", ReplayAutoAuth,
                                               ReplayOutput(caller.out), caller.ctx)>>]
       ELSE Return(st2, err)

StateOf(p) ==
    [stack |-> stack[p], req |-> request[p], ev |-> events[p], leak |-> {},
     fin |-> "run", err |-> NoErr]

\* write a call's state back
Commit(p, st, out) ==
    /\ stack' = [stack EXCEPT ![p] = st.stack]
    /\ request' = [request EXCEPT ![p] = st.req]
    /\ events' = [events EXCEPT ![p] = st.ev]
    /\ output' = [output EXCEPT ![p] = out]
    /\ pc' = [pc EXCEPT ![p] = IF st.fin = "run" THEN "running" ELSE "done"]
    /\ result' = [result EXCEPT ![p] = [fin |-> st.fin, err |-> st.err, leak |-> st.leak]]

(***************************************************************************)
(* Initial states.                                                         *)
(***************************************************************************)
NoResult == [fin |-> "none", err |-> NoErr, leak |-> {}]

InitWith(active) ==
    /\ pc = [p \in Procs |-> IF p \in active THEN "idle" ELSE "off"]
    /\ call = [p \in Procs |-> NoCall]
    /\ request = [p \in Procs |-> NoCall.req]
    /\ stack = [p \in Procs |-> <<>>]
    /\ sent = [p \in Procs |-> <<>>]
    /\ events = [p \in Procs |-> <<>>]
    /\ cancelled = [p \in Procs |-> FALSE]
    /\ output = [p \in Procs |-> ZeroValue]
    /\ result = [p \in Procs |-> NoResult]
    /\ client = TheClient.c
    /\ heap = TheClient.heap

\* one logical call
Init == InitWith({1})

\* NumCalls calls on one Client
InitConc == InitWith(Procs)

(***************************************************************************)
(* Actions.                                                                *)
(***************************************************************************)
\* an endpoint method (or a direct caller) enters requestExecute
CallFrom(p, cs) ==
    /\ pc[p] = "idle"
    /\ \E c \in cs :
         /\ call' = [call EXCEPT ![p] = c]
         /\ request' = [request EXCEPT ![p] = c.req]
         /\ stack' = [stack EXCEPT ![p] = <<Frame("first", c.autoAuth, c.out, "call")>>]
    /\ pc' = [pc EXCEPT ![p] = "running"]
    /\ UNCHANGED <<sent, events, cancelled, output, result, client, heap>>

Call(p) == CallFrom(p, Calls)

CallConc(p) == CallFrom(p, ConcCalls)

MaxURLs == 2

\* the arguments AddNewTorrents is called with
TorrentURLs ==
    {URLOf("http", "h", "/p", FALSE), URLOf("https", "", "/p", FALSE),
     URLOf("http", "h", "", FALSE), URLOf("magnet", "", "", TRUE),
     URLOf("magnet", "", "", FALSE), URLOf("magnet", "h", "", TRUE),
     URLOf("bc", "bt", "", FALSE), URLOf("bc", "h", "", FALSE),
     URLOf("ftp", "h", "/p", FALSE)}

TorrentOptions ==
    {NilOptions, OptionsOf([k \in {"category", "paused"} |->
                              IF k = "category" THEN <<"c">> ELSE <<"t", "r", "u", "e">>])}

\* AddNewTorrents: it returns at once when its arguments fail its checks,
\* and enters requestExecute otherwise
CallAddNewTorrents(p) ==
    /\ pc[p] = "idle"
    /\ \E files \in SUBSET {<<"f">>}, options \in TorrentOptions :
         \E urls \in UNION {[1..n -> TorrentURLs] : n \in 0..MaxURLs} :
            LET a == AddNewTorrentsWith(files, urls, options)
            IN /\ call' = [call EXCEPT ![p] = a.call]
               /\ request' = [request EXCEPT ![p] = a.call.req]
               /\ IF IsErr(a.err)
                  THEN /\ pc' = [pc EXCEPT ![p] = "done"]
                       /\ result' = [result EXCEPT ![p] =
                                        [fin |-> "error", err |-> a.err, leak |-> {}]]
                       /\ UNCHANGED stack
                  ELSE /\ pc' = [pc EXCEPT ![p] = "running"]
                       /\ stack' = [stack EXCEPT ![p] =
                                       <<Frame("first", a.call.autoAuth, a.call.out, "call")>>]
                       /\ UNCHANGED result
    /\ UNCHANGED <<sent, events, cancelled, output, client, heap>>

\* the context of frame f of call p is done
CtxDone(p, f) == f.ctx = "call" /\ cancelled[p]

\* what the transport writes for a request: the bytes left in its Body
WireRequest(f, req) ==
    [role |-> f.role, method |-> req.method, path |-> req.path, query |-> req.query,
     body |-> IF req.hasBody /\ ~req.consumed THEN req.body ELSE <<>>,
     ctype |-> req.ctype, origin |-> req.origin]

\* c.client.Do(request) is called: with a context already done the transport
\* returns its error at once; otherwise the request goes on the wire
ClientDo(p) ==
    /\ pc[p] = "running"
    /\ Top(stack[p]).at = "do"
    /\ LET f == Top(stack[p])
           req == ReqOf(f, request[p])
       IN IF CtxDone(p, f)
          THEN /\ Commit(p, Return(StateOf(p), DoFailure(ContextError)), output[p])
               /\ UNCHANGED sent
          ELSE /\ sent' = [sent EXCEPT ![p] = Append(@, WireRequest(f, req))]
               /\ events' = [events EXCEPT ![p] = Append(@, <<"send", f.role>>)]
               /\ stack' = [stack EXCEPT ![p] = SetTop(@, [f EXCEPT !.at = "wait"])]
               /\ request' = [request EXCEPT ![p] =
                                IF f.role = "login" THEN @
                                ELSE [@ EXCEPT !.consumed = @ \/ req.hasBody]]
               /\ UNCHANGED <<pc, output, result>>
    /\ UNCHANGED <<call, cancelled, client, heap>>

\* the round trip fails: Do returns an error and no response
TransportFail(p) ==
    /\ pc[p] = "running"
    /\ Top(stack[p]).at = "wait"
    /\ Commit(p, Return(StateOf(p), DoFailure(TransportError)), output[p])
    /\ UNCHANGED <<call, sent, cancelled, client, heap>>

\* the context is done while the round trip is in flight: Do returns its error
DoAborted(p) ==
    /\ pc[p] = "running"
    /\ Top(stack[p]).at = "wait"
    /\ CtxDone(p, Top(stack[p]))
    /\ Commit(p, Return(StateOf(p), DoFailure(ContextError)), output[p])
    /\ UNCHANGED <<call, sent, cancelled, client, heap>>

\* the caller's cancellation signal fires
Cancel(p) ==
    /\ pc[p] = "running"
    /\ ~cancelled[p]
    /\ cancelled' = [cancelled EXCEPT ![p] = TRUE]
    /\ events' = [events EXCEPT ![p] = Append(@, <<"cancel", Top(stack[p]).role>>)]
    /\ UNCHANGED <<pc, call, request, stack, sent, output, result, client, heap>>

\* faulty variant: the body of every answer is handed to requestExtract
ProceedsAlways(status) == TRUE

\* case http.StatusOK: proceed to requestExtract
Proceeds(status) == status = StatusOK

\* Do returns a response: the rest of requestExecute up to its next call of Do
Respond(p, status, content) ==
    LET f == [Top(stack[p]) EXCEPT !.resp = "open", !.content = content]
        st == [StateOf(p) EXCEPT !.stack = SetTop(stack[p], f),
                                 !.ev = Append(@, <<"resp", f.role, status, content>>)]
    IN CASE Proceeds(status) ->
              LET x == requestExtract(content, f.out, output[p])
              IN Commit(p, Return(st, x.err), x.out)
         [] status = StatusForbidden ->
              IF ~f.autoAuth
              THEN Commit(p, Return(st, ForbiddenFailure(status)), output[p])
              ELSE LET g == [CloseBody(f) EXCEPT !.at = "login"]
                   IN Commit(p,
                             [st EXCEPT !.ev = @ \o CloseEvents(f, g),
                                        !.stack = SetTop(stack[p], g) \o
                                            <<Frame("login", AuthAutoAuth, "nil",
                                                    LoginContext(f.ctx))>>],
                             output[p])
         [] OTHER -> Commit(p, Return(st, StatusFailure(status)), output[p])

ReceiveFrom(p, ss, okContents) ==
    /\ pc[p] = "running"
    /\ Top(stack[p]).at = "wait"
    /\ \E status \in ss :
         \E content \in (IF status = StatusOK THEN okContents ELSE ErrorContents) :
            Respond(p, status, content)
    /\ UNCHANGED <<call, sent, cancelled, client, heap>>

Receive(p) == ReceiveFrom(p, Statuses, Contents)

\* the answers of the concurrent specification
ConcContents == [ctype : {contentTypeHeaderTextPlain}, kind : {"ok"}, id : {1}]

ReceiveConc(p) == ReceiveFrom(p, {StatusOK, StatusForbidden}, ConcContents)

Next ==
    \E p \in Procs :
        \/ Call(p)
        \/ CallAddNewTorrents(p)
        \/ ClientDo(p)
        \/ TransportFail(p)
        \/ DoAborted(p)
        \/ Cancel(p)
        \/ Receive(p)

Spec == Init /\ [][Next]_vars

\* one call of an endpoint method or of requestExecute on a request of any
\* shape, with one payload for the 200 answers
LiveCalls == Endpoints \cup {c \in DirectCalls : c.out \in {"nil", "string"}}

CallLive(p) == CallFrom(p, LiveCalls)

ReceiveLive(p) == ReceiveFrom(p, Statuses, ConcContents)

NextLive ==
    \E p \in Procs :
        \/ CallLive(p)
        \/ ClientDo(p)
        \/ TransportFail(p)
        \/ DoAborted(p)
        \/ Cancel(p)
        \/ ReceiveLive(p)

\* the scheduling of one call: a call inside requestExecute goes on to call
\* c.client.Do, and the transport answers every request it was given
Fairness == \A p \in Procs : WF_vars(ClientDo(p)) /\ WF_vars(ReceiveLive(p))

SpecLive == Init /\ [][NextLive]_vars /\ Fairness

NextConc ==
    \E p \in Procs :
        \/ CallConc(p)
        \/ ClientDo(p)
        \/ TransportFail(p)
        \/ ReceiveConc(p)

SpecConc == InitConc /\ [][NextConc]_vars

TypeOK ==
    /\ pc \in [Procs -> {"off", "idle", "running", "done"}]
    /\ cancelled \in [Procs -> BOOLEAN]
    /\ \A p \in Procs : (pc[p] = "running") <=> (stack[p] # <<>>)

(***************************************************************************)
(* Reading a call's history.                                               *)
(***************************************************************************)
LoginPath == JoinPath("auth", "login")

\* the requests of call p on the wire that satisfy P
WireCount(p, P(_)) == Cardinality({i \in 1..Len(sent[p]) : P(sent[p][i])})

IsLoginRequest(r) == r.path = LoginPath

IsReplay(r) == r.role = "replay"

IsFirst(r) == r.role = "first"

\* call p obtained a response with this status in its frame of this role
Answered(p, role, status) ==
    \E i \in 1..Len(events[p]) :
        LET e == events[p][i]
        IN e[1] = "resp" /\ e[2] = role /\ e[3] = status

\* the body that came with the response of the frame of this role
ContentOf(p, role) ==
    LET i == CHOOSE i \in 1..Len(events[p]) :
                 events[p][i][1] = "resp" /\ events[p][i][2] = role
    IN events[p][i][4]

Roles(p) == [i \in 1..Len(sent[p]) |-> sent[p][i].role]

Done(p) == pc[p] = "done"

(***************************************************************************)
(* C1. For every logical call, whatever statuses the server returns, at    *)
(* most one login request and at most one replay of the original request   *)
(* are issued, and the replay runs with auto-authentication disabled: a    *)
(* server that keeps answering 403 causes neither a second login nor a     *)
(* third send of the original.                                             *)
(***************************************************************************)
C1_AtMostOneLoginAndReplay ==
    \A p \in Procs :
        /\ WireCount(p, IsLoginRequest) <= 1
        /\ WireCount(p, IsReplay) <= 1
        /\ WireCount(p, IsFirst) <= 1
        /\ Len(sent[p]) <= 3
        /\ \A i \in 1..Len(stack[p]) :
              stack[p][i].role = "replay" => ~stack[p][i].autoAuth

\* a call rejected on its first send and again on its replay has ended
\* after one login
C1_Witness ==
    \E p \in Procs :
        /\ Done(p)
        /\ Answered(p, "first", StatusForbidden)
        /\ Answered(p, "replay", StatusForbidden)
        /\ WireCount(p, IsLoginRequest) = 1
        /\ WireCount(p, IsReplay) = 1

(***************************************************************************)
(* C2. When the first send of a call made with auto-authentication enabled *)
(* is answered 403, the login is answered 200 and the replay is answered   *)
(* 200, the value written to the caller's output is the decoded body of    *)
(* the replay's response, never the body of the rejected first response.   *)
(***************************************************************************)
\* the relogin scenario of call p ran to its end with a 200 on the replay
ReloginScenario(p) ==
    /\ Done(p)
    /\ call[p].autoAuth
    /\ Answered(p, "first", StatusForbidden)
    /\ Answered(p, "login", StatusOK)
    /\ Answered(p, "replay", StatusOK)

\* the body can be decoded into a target of this kind
Extractable(content, out) ==
    \/ out = "nil"
    \/ /\ out = "string"
       /\ content.ctype \in {contentTypeHeaderTextPlain, contentTypeHeaderTextPlanUTF8}
       /\ content.kind # "ioerr"
    \/ /\ out \in {"struct", "slice"}
       /\ content.ctype = contentTypeHeaderJSON
       /\ content.kind = "ok"

\* the value a target of this kind holds once the body has been decoded into it
Decoded(content, out) ==
    IF out = "nil" THEN ZeroValue
    ELSE [form |-> IF out = "string" THEN "string" ELSE "json",
          id |-> content.id, whole |-> TRUE]

\* the claim as stated: a 200 on the replay makes the call succeed
C2_ReplayOKAlwaysSucceeds ==
    \A p \in Procs :
        ReloginScenario(p) /\ call[p].out \in {"string", "struct", "slice"} =>
            /\ result[p].fin = "ok"
            /\ output[p] = Decoded(ContentOf(p, "replay"), call[p].out)

\* as amended: provided the replay's body can be extracted into the target
C2_ReplayBodyIsTheResult ==
    \A p \in Procs :
        ReloginScenario(p) /\ Extractable(ContentOf(p, "replay"), call[p].out) =>
            /\ result[p].fin = "ok"
            /\ result[p].err = NoErr
            /\ output[p] = Decoded(ContentOf(p, "replay"), call[p].out)

\* the rejected response and the replay's response carry different bodies
C2_Witness ==
    \E p \in Procs :
        /\ ReloginScenario(p)
        /\ call[p].out = "string"
        /\ ContentOf(p, "first").id = 1
        /\ ContentOf(p, "replay").id = 2
        /\ result[p].fin = "ok"
        /\ output[p].id = 2

(***************************************************************************)
(* C3. If the replay sent after a successful re-login is itself answered   *)
(* 403, the call fails with an HTTPError of status 403 and no further      *)
(* request is issued: no second login, no third send of the original.      *)
(***************************************************************************)
C3_ReplayForbiddenFails ==
    \A p \in Procs :
        Answered(p, "replay", StatusForbidden) =>
            /\ Done(p)
            /\ result[p].fin = "error"
            /\ result[p].err.kind = "http"
            /\ ErrorsAsHTTP(result[p].err) = StatusForbidden
            /\ Roles(p) = <<"first", "login", "replay">>

C3_Witness ==
    \E p \in Procs :
        /\ Answered(p, "login", StatusOK)
        /\ Answered(p, "replay", StatusForbidden)
        /\ Done(p)

(***************************************************************************)
(* C4. Whenever a call reaches the replay step (first answer 403,          *)
(* auto-authentication enabled, login succeeded), the replay is sent and   *)
(* carries the same method, URL and body bytes as the first send, for      *)
(* every kind of request: no body (GET, parameterless POST), form-encoded  *)
(* POST body, and the multipart body of AddNewTorrents.                    *)
(***************************************************************************)
\* call p went through a successful login, and was not cancelled
ReachedReplayStep(p) ==
    /\ call[p].autoAuth
    /\ Answered(p, "first", StatusForbidden)
    /\ Answered(p, "login", StatusOK)
    /\ ~cancelled[p]

SameRequest(a, b) ==
    /\ a.method = b.method
    /\ a.path = b.path
    /\ a.query = b.query
    /\ a.body = b.body

C4_ReplayCarriesSameRequest ==
    \A p \in Procs :
        ReachedReplayStep(p) =>
            \/ /\ pc[p] = "running"
               /\ Top(stack[p]).role = "replay"
               /\ Top(stack[p]).at = "do"
            \/ /\ Len(sent[p]) = 3
               /\ sent[p][3].role = "replay"
               /\ SameRequest(sent[p][1], sent[p][3])

(***************************************************************************)
(* C5. For every response status other than 200 and 403, on the first send *)
(* or on the replay, requestExecute fails at once with an HTTPError        *)
(* carrying exactly that status: no login is attempted, the request is not *)
(* sent again, and the status can be recovered from the error the endpoint *)
(* method returns.                                                         *)
(***************************************************************************)
C5_OtherStatusFailsWithStatus ==
    \A p \in Procs : \A status \in OtherStatuses :
        /\ Answered(p, "first", status) =>
              /\ Done(p)
              /\ result[p].fin = "error"
              /\ result[p].err.kind = "http"
              /\ ErrorsAsHTTP(result[p].err) = status
              /\ Roles(p) = <<"first">>
        /\ Answered(p, "replay", status) =>
              /\ Done(p)
              /\ result[p].fin = "error"
              /\ result[p].err.kind = "http"
              /\ ErrorsAsHTTP(result[p].err) = status
              /\ Roles(p) = <<"first", "login", "replay">>

C5_Witness ==
    \E p \in Procs : \E status \in OtherStatuses :
        /\ Answered(p, "replay", status)
        /\ Done(p)
        /\ Len(result[p].err.chain) = 1
        /\ ErrorsAsHTTP(result[p].err) = status

(***************************************************************************)
(* C6. A request executed with auto-authentication disabled and answered   *)
(* 403 fails at once with HTTPError(403) and no login request is issued;   *)
(* Login and Logout always execute with auto-authentication disabled, so a *)
(* 403 answer to a login request never triggers another login.             *)
(***************************************************************************)
C6_NoAutoAuthForbiddenFails ==
    \A p \in Procs :
        /\ ~call[p].autoAuth /\ Answered(p, "first", StatusForbidden) =>
              /\ Done(p)
              /\ result[p].fin = "error"
              /\ result[p].err.kind = "http"
              /\ ErrorsAsHTTP(result[p].err) = StatusForbidden
              /\ Roles(p) = <<"first">>
        /\ call[p].name \in {"Login", "Logout"} => ~call[p].autoAuth
        /\ \A i \in 1..Len(stack[p]) :
              stack[p][i].role = "login" => ~stack[p][i].autoAuth
        /\ Answered(p, "login", StatusForbidden) =>
              /\ Done(p)
              /\ result[p].fin = "error"
              /\ ErrorsAsHTTP(result[p].err) = StatusForbidden
              /\ Roles(p) = <<"first", "login">>

\* the login of the relogin path is itself answered 403
C6_Witness ==
    \E p \in Procs :
        /\ Answered(p, "login", StatusForbidden)
        /\ Done(p)
        /\ WireCount(p, IsLoginRequest) = 1

(***************************************************************************)
(* C7. Every response obtained from the transport during a logical call    *)
(* (first send, login, replay) has its body closed by the time the call    *)
(* ends, on every exit path: success, HTTP-status failure, login failure,  *)
(* body-rewind failure and extraction failure.                             *)
(***************************************************************************)
\* every response of call p is followed by the close of its body
AllBodiesClosed(p) ==
    \A i \in 1..Len(events[p]) :
        events[p][i][1] = "resp" =>
            \E j \in (i + 1)..Len(events[p]) :
                events[p][j] = <<"close", events[p][i][2]>>

C7_BodiesClosedOnExit ==
    \A p \in Procs :
        Done(p) => AllBodiesClosed(p) /\ result[p].leak = {}

\* the three responses of a relogin path that ends in an extraction failure
C7_Witness ==
    \E p \in Procs :
        /\ Done(p)
        /\ Answered(p, "first", StatusForbidden)
        /\ Answered(p, "login", StatusOK)
        /\ Answered(p, "replay", StatusOK)
        /\ result[p].fin = "error"
        /\ result[p].err.kind = "internal"
        /\ AllBodiesClosed(p)

(***************************************************************************)
(* C8. Once the caller's cancellation signal has fired, no new request is  *)
(* sent; a cancellation that fires before or during the relogin sub-call   *)
(* makes the login fail, and the call returns an error without ever        *)
(* sending the replay.                                                     *)
(***************************************************************************)
\* the position of the first event of call p that satisfies P, 0 if none
FirstEvent(p, P(_)) ==
    IF \E i \in 1..Len(events[p]) : P(events[p][i])
    THEN CHOOSE i \in 1..Len(events[p]) :
            P(events[p][i]) /\ \A j \in 1..(i - 1) : ~P(events[p][j])
    ELSE 0

IsCancel(e) == e[1] = "cancel"

IsLoginResp(e) == e[1] = "resp" /\ e[2] = "login"

IsLoginSend(e) == e[1] = "send" /\ e[2] = "login"

\* call p entered the relogin sub-call: the rejected body was closed early
EnteredLogin(p) == call[p].autoAuth /\ Answered(p, "first", StatusForbidden)

NoSendAfterCancel(p) ==
    \A i \in 1..Len(events[p]) : \A j \in (i + 1)..Len(events[p]) :
        IsCancel(events[p][i]) => events[p][j][1] # "send"

\* the cancellation fired in the relogin sub-call before its response
CancelledInLogin(p) ==
    /\ EnteredLogin(p)
    /\ cancelled[p]
    /\ FirstEvent(p, IsCancel) > FirstEvent(p, LAMBDA e : e[1] = "resp")
    /\ \/ FirstEvent(p, IsLoginResp) = 0
       \/ FirstEvent(p, IsCancel) < FirstEvent(p, IsLoginResp)

\* the login's round trip saw the cancellation: its Do returned no response
LoginSawCancel(p) ==
    CancelledInLogin(p) /\ FirstEvent(p, IsLoginResp) = 0

\* the claim as stated, on the calls whose request has a GetBody
C8_CancelFailsLogin ==
    \A p \in Procs :
        /\ NoSendAfterCancel(p)
        /\ Done(p) /\ CancelledInLogin(p) /\ call[p].req.getBody =>
              /\ ~Answered(p, "login", StatusOK)
              /\ result[p].fin = "error"
              /\ WireCount(p, IsReplay) = 0

\* as amended: the login fails when its round trip sees the cancellation; a
\* response that is obtained all the same is handled, and the replay is
\* still not sent
C8_NoSendAfterCancel ==
    \A p \in Procs :
        /\ NoSendAfterCancel(p)
        /\ Done(p) /\ LoginSawCancel(p) =>
              /\ result[p].fin = "error"
              /\ result[p].err.kind \in {"context", "transport"}
              /\ \E i \in 1..Len(result[p].err.chain) :
                    result[p].err.chain[i].msg = "auto login failed"
              /\ WireCount(p, IsReplay) = 0
        /\ Done(p) /\ CancelledInLogin(p) => WireCount(p, IsReplay) = 0

\* cancelled while the login request was in flight
C8_Witness ==
    \E p \in Procs :
        /\ Done(p)
        /\ LoginSawCancel(p)
        /\ FirstEvent(p, IsLoginSend) # 0
        /\ FirstEvent(p, IsLoginSend) < FirstEvent(p, IsCancel)

(***************************************************************************)
(* C10. When the round trip itself fails on the first send, the call       *)
(* returns that error wrapped and issues no login and no replay; when it   *)
(* fails on the replay, the error is returned with no further send.        *)
(***************************************************************************)
\* the Do of the frame of this role was sent and returned no response
RoundTripFailed(p, role) ==
    /\ Done(p)
    /\ \E i \in 1..Len(events[p]) : events[p][i] = <<"send", role>>
    /\ \A i \in 1..Len(events[p]) :
          ~(events[p][i][1] = "resp" /\ events[p][i][2] = role)

WrappedTransportError(err, msgs) ==
    /\ err.kind \in {"transport", "context"}
    /\ [i \in 1..Len(err.chain) |-> err.chain[i].msg] = msgs
    /\ \A i \in 1..Len(err.chain) : err.chain[i].w

C10_TransportErrorNotRetried ==
    \A p \in Procs :
        /\ RoundTripFailed(p, "first") =>
              /\ result[p].fin = "error"
              /\ WrappedTransportError(result[p].err,
                    <<"executing request failed", "HTTP request failure">>)
              /\ Roles(p) = <<"first">>
        /\ RoundTripFailed(p, "replay") =>
              /\ result[p].fin = "error"
              /\ WrappedTransportError(result[p].err,
                    <<"executing request failed", "HTTP request failure">>)
              /\ Roles(p) = <<"first", "login", "replay">>

C10_Witness ==
    \E p \in Procs :
        /\ RoundTripFailed(p, "replay")
        /\ result[p].err.kind = "transport"

(***************************************************************************)
(* C9. For any number of endpoint calls running concurrently on one Client *)
(* under every interleaving of their sends, logins and a concurrent        *)
(* logout: each call performs at most one login and at most one replay, no *)
(* call waits on another call, and every call returns either its result    *)
(* or an error.                                                            *)
(***************************************************************************)
\* a step of call p in the concurrent specification
StepConc(p) == ClientDo(p) \/ TransportFail(p) \/ ReceiveConc(p)

\* a running call can take its next step whatever the other calls are doing
C9_NoCallWaits ==
    \A p \in Procs : pc[p] = "running" => ENABLED StepConc(p)

C9_AtMostOneLoginEach ==
    \A p \in Procs :
        /\ WireCount(p, IsLoginRequest) <= 1
        /\ WireCount(p, IsReplay) <= 1

C9_EveryCallReturns ==
    \A p \in Procs : Done(p) => result[p].fin \in {"ok", "error"}

\* the claim as stated
C9_ConcurrentCalls ==
    /\ C9_AtMostOneLoginEach
    /\ C9_NoCallWaits
    /\ C9_EveryCallReturns

(***************************************************************************)
(* The value types of the entities: machine integers, float64, quantities, *)
(* instants, durations and tag lists.  The widths are scaled down: int and *)
(* uint64 have IntBits bits (64 in the program), float64 has a mantissa of *)
(* MantBits bits (53 in the program), and time.Second is Second            *)
(* nanoseconds (10^9 in the program).                                      *)
(***************************************************************************)
IntBits == 9
MantBits == 4
Second == 10

MaxUint64 == 2^IntBits - 1
MaxInt == 2^(IntBits - 1) - 1
MinInt == -(2^(IntBits - 1))

\* the values of an int field of a wire record
WireInts == MinInt..MaxInt

\* the compilers' targets: how a float64 outside the range of uint64
\* converts is implementation-dependent
Builds == {"amd64", "arm64"}

\* two's complement wrap-around of int64 arithmetic
WrapInt(x) == ((x - MinInt) % 2^IntBits) + MinInt

RECURSIVE BitLen(_)
BitLen(x) == IF x = 0 THEN 0 ELSE 1 + BitLen(x \div 2)

\* float64(x) for a non-negative integer x: round to nearest, ties to even
RoundMag(x) ==
    IF BitLen(x) <= MantBits THEN x
    ELSE LET u == 2^(BitLen(x) - MantBits)
             q == x \div u
             r == x % u
         IN IF 2 * r < u \/ (2 * r = u /\ q % 2 = 0) THEN q * u ELSE (q + 1) * u

\* float64(x) for an integer x
Float64(x) == IF x < 0 THEN -RoundMag(-x) ELSE RoundMag(x)

\* uint64(f) for an integer-valued float64 f
Float64ToUint64(build, f) ==
    IF 0 <= f /\ f <= MaxUint64 THEN f
    ELSE IF build = "arm64" THEN (IF f < 0 THEN 0 ELSE MaxUint64)
    ELSE IF MinInt <= f /\ f < 0 THEN f + 2^IntBits
    ELSE 2^(IntBits - 1)

\* faulty variant: the byte count is stored as a bit count, unscaled
ImportInBytesUnscaled(build, bytes) == Float64ToUint64(build, Float64(bytes))

\* cunits.ImportInBytes(float64(bytes)): Bits(sizeInBytes * 8)
ImportInBytes(build, bytes) == Float64ToUint64(build, Float64(bytes) * 8)

\* int(bits.Bytes()): the float64 of the bits, divided by 8, truncated
BytesOf(bits) == Float64(bits) \div 8

\* faulty variant: the sentinel is the zero quantity
unlimitedSpeedLimitZero == [Bits |-> 0]

\* Speed{cunits.Speed{Bits: math.MaxUint64}}
unlimitedSpeedLimit == [Bits |-> MaxUint64]

\* Speed.Unlimited
Unlimited(s) == s = unlimitedSpeedLimit

\* Speed.ToBytes
ToBytes(s) == IF Unlimited(s) THEN -1 ELSE BytesOf(s.Bits)

\* faulty variant: -1 is converted like any other integer
GetSpeedFromBytesNoSentinel(build, bytes) == [Bits |-> ImportInBytes(build, bytes)]

\* GetSpeedFromBytes
GetSpeedFromBytes(build, bytes) ==
    IF bytes = -1 THEN unlimitedSpeedLimit
    ELSE [Bits |-> ImportInBytes(build, bytes)]

\* time.Unix(sec, 0) and Time.Unix()
TimeUnix(sec) == [unix |-> sec]

UnixOf(t) == t.unix

\* time.Duration(n) * time.Second, in nanoseconds
DurationOf(n) == WrapInt(n * Second)

\* Go's truncated division
Quo(a, b) == IF a >= 0 THEN a \div b ELSE -((-a) \div b)

\* int(d.Seconds())
SecondsOf(d) == Quo(d, Second)

(***************************************************************************)
(* Tag lists.  A string is a sequence of one-character strings; the tags   *)
(* separator is ", ".  A []string is nil or a sequence of strings.         *)
(***************************************************************************)
TagSep == <<",", " ">>

NilSlice == [isNil |-> TRUE, s |-> <<>>]

SliceOf(l) == [isNil |-> FALSE, s |-> l]

HasPrefix(s, pre) == Len(s) >= Len(pre) /\ SubSeq(s, 1, Len(pre)) = pre

\* strings.Index(s, sep), from 1; 0 when sep does not occur
IndexOf(s, sep) ==
    LET hits == {i \in 1..Len(s) : HasPrefix(SubSeq(s, i, Len(s)), sep)}
    IN IF hits = {} THEN 0 ELSE CHOOSE i \in hits : \A j \in hits : i <= j

\* strings.Split(s, sep) for a non-empty sep: one more piece than there are
\* separators, so the empty string gives one empty piece
RECURSIVE Split(_, _)
Split(s, sep) ==
    LET i == IndexOf(s, sep)
    IN IF i = 0 THEN <<s>>
       ELSE <<SubSeq(s, 1, i - 1)>> \o Split(SubSeq(s, i + Len(sep), Len(s)), sep)

\* the Tags conversion of TorrentInfos.MarshalJSON
joinTags(tags) == Join(tags.s, TagSep)

\* the Tags conversion of TorrentInfos.UnmarshalJSON
splitTags(s) == SliceOf(Split(s, TagSep))

(***************************************************************************)
(* The entity transcoders.  A wire record and an entity are functions from *)
(* the JSON keys to values; the fields the transcoder shadows are          *)
(* converted by kind, the others pass through the embedded mask unchanged. *)
(***************************************************************************)
TorrentInfosKinds ==
    [time     |-> {"added_on", "completion_on", "last_activity", "seen_complete"},
     bytes    |-> {"amount_left", "completed", "downloaded", "downloaded_session",
                   "size", "total_size", "uploaded", "uploaded_session"},
     speed    |-> {"dl_limit", "dlspeed", "up_limit", "upspeed"},
     duration |-> {"eta", "max_seeding_time", "reannounce", "seeding_time",
                   "seeding_time_limit", "time_active"},
     tags     |-> {"tags"},
     url      |-> {"magnet_uri"},
     plain    |-> {"hash", "priority"}]

TorrentGenericPropertiesKinds ==
    [time     |-> {"creation_date", "addition_date", "completion_date", "last_seen"},
     bytes    |-> {"piece_size", "total_wasted", "total_uploaded",
                   "total_uploaded_session", "total_downloaded",
                   "total_downloaded_session", "total_size"},
     speed    |-> {"up_limit", "dl_limit", "dl_speed_avg", "dl_speed",
                   "up_speed_avg", "up_speed"},
     duration |-> {"time_elapsed", "seeding_time", "eta", "reannounce"},
     tags     |-> {},
     url      |-> {},
     plain    |-> {"save_path", "peers"}]

KindsOf(entity) ==
    IF entity = "TorrentInfos" THEN TorrentInfosKinds ELSE TorrentGenericPropertiesKinds

FieldsOf(kinds) ==
    kinds.time \cup kinds.bytes \cup kinds.speed \cup kinds.duration
        \cup kinds.tags \cup kinds.url \cup kinds.plain

IntFieldsOf(kinds) == kinds.time \cup kinds.bytes \cup kinds.speed \cup kinds.duration

\* the fields TorrentInfos.UnmarshalJSON has assigned when it parses magnet_uri
BeforeMagnetURI ==
    {"added_on", "amount_left", "completed", "completion_on", "dl_limit", "dlspeed",
     "downloaded", "downloaded_session", "eta", "last_activity"}

\* url.Parse and URL.String on the magnet links of the model: "m" is in the
\* form String gives back, "M" is not (its scheme is lowercased), "%" does
\* not parse
MagnetStrings == {<<"m">>, <<"M">>, <<"%">>}

urlParse(str) ==
    [ok |-> str # <<"%">>, url |-> IF str = <<"M">> THEN <<"m">> ELSE str]

urlString(u) == u.url

\* the value of a field of a zero entity
ZeroField(kinds, f) ==
    CASE f \in kinds.time -> TimeUnix(MinInt)
      [] f \in kinds.bytes -> 0
      [] f \in kinds.speed -> [Bits |-> 0]
      [] f \in kinds.duration -> 0
      [] f \in kinds.tags -> NilSlice
      [] f \in kinds.url -> [ok |-> FALSE, url |-> <<>>]
      [] OTHER -> 0

\* the conversion of a rate or limit field on decode
DecodeSpeed(build, v) == GetSpeedFromBytes(build, v)

\* the conversion of a timestamp field on decode
DecodeTime(v) == TimeUnix(v)

\* the "Adapt to golang types" assignment of one field
DecodeField(build, kinds, f, v) ==
    CASE f \in kinds.time -> DecodeTime(v)
      [] f \in kinds.bytes -> ImportInBytes(build, v)
      [] f \in kinds.speed -> DecodeSpeed(build, v)
      [] f \in kinds.duration -> DurationOf(v)
      [] f \in kinds.tags -> splitTags(v)
      [] f \in kinds.url -> urlParse(v)
      [] OTHER -> v

\* the "Adapt to JSON types" assignment of one field
EncodeField(kinds, f, x) ==
    CASE f \in kinds.time -> UnixOf(x)
      [] f \in kinds.bytes -> BytesOf(x)
      [] f \in kinds.speed -> ToBytes(x)
      [] f \in kinds.duration -> SecondsOf(x)
      [] f \in kinds.tags -> joinTags(x)
      [] f \in kinds.url -> urlString(x)
      [] OTHER -> x

\* UnmarshalJSON of an entity into a zero value: the error and the entity
UnmarshalJSON(build, entity, wire) ==
    LET kinds == KindsOf(entity)
        bad == \E f \in kinds.url : ~urlParse(wire[f]).ok
    IN [err |-> IF bad THEN Wrap("failed to parse magnet URI", DecodeError) ELSE NoErr,
        value |-> [f \in FieldsOf(kinds) |->
                     IF bad /\ f \notin BeforeMagnetURI /\ f \notin kinds.plain
                     THEN ZeroField(kinds, f)
                     ELSE DecodeField(build, kinds, f, wire[f])]]

\* MarshalJSON of an entity: the wire record
MarshalJSON(entity, value) ==
    LET kinds == KindsOf(entity)
    IN [f \in FieldsOf(kinds) |-> EncodeField(kinds, f, value[f])]

(***************************************************************************)
(* Optional fields (pointers), ListFilters and the listing request.        *)
(***************************************************************************)
AbsentString == [set |-> FALSE, v |-> <<>>]
AbsentBool == [set |-> FALSE, v |-> FALSE]
AbsentInt == [set |-> FALSE, v |-> 0]

\* String(value), Bool(value), Int(value): a pointer to the value
Ptr(value) == [set |-> TRUE, v |-> value]

Digits == <<"0", "1", "2", "3", "4", "5", "6", "7", "8", "9">>

RECURSIVE FormatNat(_)
FormatNat(n) ==
    IF n < 10 THEN <<Digits[n + 1]>> ELSE FormatNat(n \div 10) \o <<Digits[(n % 10) + 1]>>

\* strconv.Itoa
Itoa(n) == IF n < 0 THEN <<"-">> \o FormatNat(-n) ELSE FormatNat(n)

\* strconv.FormatBool
FormatBool(b) == IF b THEN <<"t", "r", "u", "e">> ELSE <<"f", "a", "l", "s", "e">>

FilterStateActive == <<"a", "c", "t", "i", "v", "e">>
FilterStateAll == <<"a", "l", "l">>

\* the wire key of each field of ListFilters
FilterKeys ==
    [State |-> "filter", Category |-> "category", Tag |-> "tag", Sort |-> "sort",
     ReverseSort |-> "reverse", Limit |-> "limit", Offset |-> "offset",
     Hashes |-> "hashes"]

\* the ListFilters values of the model
ListFiltersValues ==
    [State : {AbsentString, Ptr(FilterStateActive), Ptr(FilterStateAll)},
     Category : {AbsentString, Ptr(<<>>), Ptr(<<"c", "&", " ">>)},
     Tag : {AbsentString, Ptr(<<"t">>)},
     Sort : {AbsentString, Ptr(<<"s", "=">>)},
     ReverseSort : {AbsentBool, Ptr(TRUE), Ptr(FALSE)},
     Limit : {AbsentInt, Ptr(0), Ptr(12)},
     Offset : {AbsentInt, Ptr(-1)},
     Hashes : {NilSlice, SliceOf(<<>>), SliceOf(<<<<"a">>, <<"b">>>>)}]

\* the fields of a ListFilters that are not nil
PresentFilters(lf) ==
    {f \in DOMAIN FilterKeys : IF f = "Hashes" THEN ~lf[f].isNil ELSE lf[f].set}

FilterValue(lf, f) ==
    CASE f \in {"State", "Category", "Tag", "Sort"} -> lf[f].v
      [] f = "ReverseSort" -> FormatBool(lf[f].v)
      [] f \in {"Limit", "Offset"} -> Itoa(lf[f].v)
      [] OTHER -> Join(lf[f].s, <<"|">>)

FieldOfKey(k) == CHOOSE f \in DOMAIN FilterKeys : FilterKeys[f] = k

\* faulty variant: every field gets its key, absent ones with an empty value
getLowLevelReprAllKeys(lf) ==
    MapOf([k \in {FilterKeys[f] : f \in DOMAIN FilterKeys} |->
             IF FieldOfKey(k) \in PresentFilters(lf)
             THEN FilterValue(lf, FieldOfKey(k)) ELSE <<>>])

\* ListFilters.getLowLevelRepr
getLowLevelRepr(lf) ==
    MapOf([k \in {FilterKeys[f] : f \in PresentFilters(lf)} |->
             FilterValue(lf, FieldOfKey(k))])

\* the request GetTorrentList builds; filters is nil or a ListFilters
NilFilters == [isNil |-> TRUE]

GetTorrentListRequest(filters) ==
    LET preparedFilters ==
            IF filters.isNil THEN NilParams ELSE getLowLevelRepr(filters.lf)
    IN requestBuild("GET", "torrents", "info", preparedFilters)

(***************************************************************************)
(* ApplicationPreferences and its JSON form.  Every field of the struct is *)
(* a *string, a *bool or a *int, but ScanDirs, which is a map; all carry   *)
(* the omitempty option.  The model has one field of each type and the     *)
(* field of the usage example.                                             *)
(***************************************************************************)
PreferencesKeys ==
    [Locale |-> "locale", CreateSubfolderEnabled |-> "create_subfolder_enabled",
     AutoDeleteMode |-> "auto_delete_mode", ScanDirs |-> "scan_dirs",
     AlternativeWebuiEnabled |-> "alternative_webui_enabled"]

\* a map[string]any: nil, or the set of its keys
NilMap == [isNil |-> TRUE, keys |-> {}]

MapValue(keys) == [isNil |-> FALSE, keys |-> keys]

ApplicationPreferencesValues ==
    [Locale : {AbsentString, Ptr(<<>>), Ptr(<<"e", "n">>)},
     CreateSubfolderEnabled : {AbsentBool, Ptr(FALSE), Ptr(TRUE)},
     AutoDeleteMode : {AbsentInt, Ptr(0), Ptr(1)},
     ScanDirs : {NilMap, MapValue({}), MapValue({"dir"})},
     AlternativeWebuiEnabled : {AbsentBool, Ptr(FALSE), Ptr(TRUE)}]

\* the fields the caller set
SetPreferences(prefs) ==
    {f \in DOMAIN PreferencesKeys : IF f = "ScanDirs" THEN ~prefs[f].isNil ELSE prefs[f].set}

\* encoding/json's omitempty: a nil pointer and a map of length 0 are empty
OmitEmpty(prefs, f) ==
    IF f = "ScanDirs" THEN prefs[f].isNil \/ prefs[f].keys = {} ELSE ~prefs[f].set

\* json.Marshal of an ApplicationPreferences: the object, key by key
MarshalPreferences(prefs) ==
    LET emitted == {f \in DOMAIN PreferencesKeys : ~OmitEmpty(prefs, f)}
    IN [k \in {PreferencesKeys[f] : f \in emitted} |->
          LET f == CHOOSE g \in emitted : PreferencesKeys[g] = k
          IN IF f = "ScanDirs" THEN prefs[f].keys ELSE prefs[f].v]

(***************************************************************************)
(* Tracker entries.  TorrentTrackerStatus is a uint8; encoding/json        *)
(* refuses a number that does not fit the type of the field it decodes     *)
(* into (UnmarshalTypeError), goes on with the other fields and returns    *)
(* the error at the end.                                                   *)
(***************************************************************************)
TorrentTrackerDisabled == 0
TorrentTrackerNotContacted == 1
TorrentTrackerWorking == 2
TorrentTrackerUpdating == 3
TorrentTrackerNotWorking == 4

\* math.MaxUint8
MaxUint8 == 255

\* TorrentTrackerStatus.String
TorrentTrackerStatusString(tts) ==
    CASE tts = TorrentTrackerDisabled -> <<"disabled">>
      [] tts = TorrentTrackerNotContacted -> <<"not contacted">>
      [] tts = TorrentTrackerWorking -> <<"working">>
      [] tts = TorrentTrackerUpdating -> <<"updating">>
      [] tts = TorrentTrackerNotWorking -> <<"not working">>
      [] OTHER -> Itoa(tts)

\* the code is one of the five known statuses
KnownStatus(code) == TorrentTrackerDisabled <= code /\ code <= TorrentTrackerNotWorking

\* the JSON number fits the uint8 the Status field is
FitsTorrentTrackerStatus(code) == 0 <= code /\ code <= MaxUint8

\* TorrentTracker.UnmarshalJSON into a zero value: the error and the entry
TorrentTrackerUnmarshalJSON(wire) ==
    LET fits == FitsTorrentTrackerStatus(wire.status)
        parsed == urlParse(wire.url)
        status == IF fits THEN wire.status ELSE 0
    IN CASE ~fits ->
              [err |-> DecodeError,
               value |-> [URL |-> [ok |-> FALSE, url |-> <<>>], Status |-> status,
                          Tier |-> wire.tier]]
         [] fits /\ ~parsed.ok ->
              [err |-> Wrap("failed to parse tracker URL", DecodeError),
               value |-> [URL |-> [ok |-> FALSE, url |-> <<>>], Status |-> status,
                          Tier |-> wire.tier]]
         [] OTHER ->
              [err |-> NoErr,
               value |-> [URL |-> parsed, Status |-> status, Tier |-> wire.tier]]

\* TorrentTracker.MarshalJSON
TorrentTrackerMarshalJSON(tt) ==
    [url |-> urlString(tt.URL), status |-> tt.Status, tier |-> tt.Tier]

(***************************************************************************)
(* The transcoders, the conversions and the builders as operations on      *)
(* inputs drawn from bounded sets.  The variables are those of a call:     *)
(* call is the operation and its input, output what its first step gave,   *)
(* result what its second step gave, request the request it built.         *)
(***************************************************************************)
MaxTagLen == 4
MaxTags == 2

SeqsUpTo(S, n) == UNION {[1..k -> S] : k \in 0..n}

\* the tags strings a wire record may carry
TagStrings == SeqsUpTo({"a", ",", " "}, MaxTagLen)

\* the tag lists an entity may carry: nil, empty, or tags with no separator
TagLists == {NilSlice} \cup {SliceOf(l) : l \in SeqsUpTo({<<>>, <<"a">>, <<"b">>}, MaxTags)}

Entities == {"TorrentInfos", "TorrentGenericProperties"}

DefaultWire(entity) ==
    LET kinds == KindsOf(entity)
    IN [f \in FieldsOf(kinds) |->
          CASE f \in kinds.tags -> <<>>
            [] f \in kinds.url -> <<"m">>
            [] f \in {"hash", "save_path"} -> <<"h">>
            [] OTHER -> 0]

\* the wire records of the model: one field holds any value, the others 0
WireRecords(entity) ==
    LET kinds == KindsOf(entity)
        base == DefaultWire(entity)
    IN {[base EXCEPT ![f] = v] : f \in IntFieldsOf(kinds), v \in WireInts}
       \cup {[base EXCEPT ![f] = v] : f \in kinds.tags, v \in TagStrings}
       \cup {[base EXCEPT ![f] = v] : f \in kinds.url, v \in MagnetStrings}

\* the TorrentInfos values of the model: any tag list, three limits
TorrentInfosValues ==
    LET base == UnmarshalJSON("amd64", "TorrentInfos", DefaultWire("TorrentInfos")).value
    IN {[base EXCEPT !["tags"] = t, !["up_limit"] = s] :
            t \in TagLists, s \in {[Bits |-> 0], [Bits |-> 8], unlimitedSpeedLimit}}

FiltersArguments ==
    {NilFilters} \cup {[isNil |-> FALSE, lf |-> lf] : lf \in ListFiltersValues}

\* the status codes a tracker record may carry: the known ones, unknown
\* ones, and numbers on both sides of the range of the type
WireStatusCodes == {-1, 0, 1, 2, 3, 4, 5, 99, MaxUint8, MaxUint8 + 1}

WireTrackers == [url : MagnetStrings, status : WireStatusCodes, tier : {-1, 0}]

\* the parameter maps requestBuild is given: nil, empty, one or two entries,
\* under the empty key, "json" and an ordinary key, with empty values and
\* values that percent-encoding changes
ParameterValues == {<<>>, <<"a">>, <<"{", "=", "}">>}

ParameterKeySets == {{}, {""}, {"json"}, {"hash"}, {"", "json"}, {"hash", "json"}}

ParameterMaps ==
    {NilParams} \cup {MapOf(f) : f \in UNION {[ks -> ParameterValues] : ks \in ParameterKeySets}}

\* the names of the files AddNewTorrents is given: a plain one, and one
\* with a double quote and a backslash
TorrentFiles == {<<"f">>, <<"a", "\"", "\\">>}

Nothing == <<>>

InitData ==
    /\ pc = "ready"
    /\ call = Nothing
    /\ request = Nothing
    /\ stack = <<>>
    /\ sent = <<>>
    /\ events = <<>>
    /\ cancelled = FALSE
    /\ output = Nothing
    /\ result = Nothing
    /\ client = TheClient.c
    /\ heap = TheClient.heap

\* json.Unmarshal of a wire record into a zero entity
Unmarshal ==
    /\ pc = "ready"
    /\ \E build \in Builds, entity \in Entities :
         \E wire \in WireRecords(entity) :
            LET x == UnmarshalJSON(build, entity, wire)
            IN /\ call' = [name |-> "UnmarshalJSON", entity |-> entity,
                           build |-> build, input |-> wire]
               /\ output' = x
               /\ pc' = IF IsErr(x.err) THEN "done" ELSE "decoded"
    /\ UNCHANGED <<request, stack, sent, events, cancelled, result, client, heap>>

\* json.Marshal of the entity just decoded
MarshalBack ==
    /\ pc = "decoded"
    /\ result' = MarshalJSON(call.entity, output.value)
    /\ pc' = "done"
    /\ UNCHANGED <<call, request, stack, sent, events, cancelled, output, client, heap>>

\* json.Marshal of a TorrentInfos
Marshal ==
    /\ pc = "ready"
    /\ \E build \in Builds, value \in TorrentInfosValues :
         /\ call' = [name |-> "MarshalJSON", entity |-> "TorrentInfos",
                     build |-> build, input |-> value]
         /\ output' = MarshalJSON("TorrentInfos", value)
    /\ pc' = "encoded"
    /\ UNCHANGED <<request, stack, sent, events, cancelled, result, client, heap>>

\* json.Unmarshal of the record just encoded
UnmarshalBack ==
    /\ pc = "encoded"
    /\ result' = UnmarshalJSON(call.build, call.entity, output)
    /\ pc' = "done"
    /\ UNCHANGED <<call, request, stack, sent, events, cancelled, output, client, heap>>

\* GetSpeedFromBytes on a wire integer
SpeedFromBytes ==
    /\ pc = "ready"
    /\ \E build \in Builds, bytes \in WireInts :
         /\ call' = [name |-> "GetSpeedFromBytes", build |-> build, input |-> bytes]
         /\ output' = GetSpeedFromBytes(build, bytes)
    /\ pc' = "speed"
    /\ UNCHANGED <<request, stack, sent, events, cancelled, result, client, heap>>

\* Speed.Unlimited and Speed.ToBytes on the quantity just obtained
SpeedToBytes ==
    /\ pc = "speed"
    /\ result' = [unlimited |-> Unlimited(output), bytes |-> ToBytes(output)]
    /\ pc' = "done"
    /\ UNCHANGED <<call, request, stack, sent, events, cancelled, output, client, heap>>

\* GetTorrentList up to its requestExecute: the map and the request
BuildTorrentList ==
    /\ pc = "ready"
    /\ \E filters \in FiltersArguments :
         /\ call' = [name |-> "GetTorrentList", input |-> filters]
         /\ output' = IF filters.isNil THEN NilParams ELSE getLowLevelRepr(filters.lf)
         /\ request' = GetTorrentListRequest(filters)
    /\ pc' = "done"
    /\ UNCHANGED <<stack, sent, events, cancelled, result, client, heap>>

\* json.Marshal of an ApplicationPreferences for a write
SerializePreferences ==
    /\ pc = "ready"
    /\ \E prefs \in ApplicationPreferencesValues :
         /\ call' = [name |-> "SetApplicationPreferences", input |-> prefs]
         /\ result' = MarshalPreferences(prefs)
    /\ pc' = "done"
    /\ UNCHANGED <<request, stack, sent, events, cancelled, output, client, heap>>

\* json.Unmarshal of a tracker record into a zero TorrentTracker
UnmarshalTracker ==
    /\ pc = "ready"
    /\ \E wire \in WireTrackers :
         LET x == TorrentTrackerUnmarshalJSON(wire)
         IN /\ call' = [name |-> "TorrentTracker.UnmarshalJSON", input |-> wire]
            /\ output' = x
            /\ pc' = IF IsErr(x.err) THEN "done" ELSE "tracker"
    /\ UNCHANGED <<request, stack, sent, events, cancelled, result, client, heap>>

\* json.Marshal of the tracker just decoded, and the String of its status
MarshalTrackerBack ==
    /\ pc = "tracker"
    /\ result' = [wire |-> TorrentTrackerMarshalJSON(output.value),
                  str |-> TorrentTrackerStatusString(output.value.Status)]
    /\ pc' = "done"
    /\ UNCHANGED <<call, request, stack, sent, events, cancelled, output, client, heap>>

\* requestBuild on any method and parameter map
BuildRequest ==
    /\ pc = "ready"
    /\ \E method \in {"GET", "POST"}, parameters \in ParameterMaps :
         /\ call' = [name |-> "requestBuild", method |-> method, input |-> parameters]
         /\ request' = requestBuild(method, "app", "x", parameters)
    /\ pc' = "done"
    /\ UNCHANGED <<stack, sent, events, cancelled, output, result, client, heap>>

\* AddNewTorrents up to its requestExecute: the payload and the request
BuildAddNewTorrents ==
    /\ pc = "ready"
    /\ \E files \in SUBSET TorrentFiles, options \in TorrentOptions :
         \E urls \in UNION {[1..n -> TorrentURLs] : n \in 0..1} :
            LET a == AddNewTorrentsWith(files, urls, options)
            IN /\ call' = a.call
               /\ request' = a.call.req
               /\ output' = torrentAddGeneratePayload(files, urls, options)
               /\ result' = a.err
    /\ pc' = "done"
    /\ UNCHANGED <<stack, sent, events, cancelled, client, heap>>

NextData ==
    \/ Unmarshal
    \/ UnmarshalTracker
    \/ MarshalTrackerBack
    \/ BuildRequest
    \/ BuildAddNewTorrents
    \/ MarshalBack
    \/ Marshal
    \/ UnmarshalBack
    \/ SpeedFromBytes
    \/ SpeedToBytes
    \/ BuildTorrentList
    \/ SerializePreferences

SpecData == InitData /\ [][NextData]_vars

\* the operation whose result the state holds
Ran(name) == pc = "done" /\ call.name = name

(***************************************************************************)
(* One Client over its life: New, then endpoint calls, logins and logouts  *)
(* in any order, each ending well or not, while the caller goes on using   *)
(* the URL it passed to New.  output is what New was given, call the last  *)
(* method called, request the request it built, result how it ended, sent  *)
(* the paths of the requests built so far.                                 *)
(***************************************************************************)
\* the number of methods called on the Client
MaxRequests == 3

\* the methods: name, HTTP method, API name, API method name
Methods ==
    {<<"GetApplicationVersion", "GET", "app", "version">>,
     <<"GetTorrentGenericProperties", "GET", "torrents", "properties">>,
     <<"Login", "POST", "auth", "login">>,
     <<"Logout", "GET", "auth", "logout">>}

InitClient ==
    /\ pc = "ready"
    /\ call = Nothing
    /\ request = Nothing
    /\ stack = <<>>
    /\ sent = <<>>
    /\ events = <<>>
    /\ cancelled = FALSE
    /\ result = Nothing
    /\ \E u \in URLValues :
         /\ output = [apiEndpoint |-> u, user |-> <<"u">>, password |-> <<"p", "&">>]
         /\ client = New(HeapOf(u), "apiEndpoint", <<"u">>, <<"p", "&">>).c
         /\ heap = New(HeapOf(u), "apiEndpoint", <<"u">>, <<"p", "&">>).heap

\* the parameters a method passes to requestBuild
ParametersOf(c, name) ==
    CASE name = "Login" ->
            MapOf([k \in {"username", "password"} |->
                     IF k = "username" THEN c.user ELSE c.password])
      [] name = "GetTorrentGenericProperties" -> HashParams
      [] OTHER -> NilParams

\* a method of the Client runs: it builds its request on the Client and
\* executes it; whatever the answers, requestExecute and Login assign no
\* field of the Client
MethodCall ==
    /\ Len(sent) < MaxRequests
    /\ \E m \in Methods, fin \in {"ok", "error"} :
         LET b == requestBuildOn(heap, client, m[2], m[3], m[4],
                                 ParametersOf(client, m[1]))
         IN /\ call' = [name |-> m[1], APIName |-> m[3], APIMethodName |-> m[4]]
            /\ request' = b.request
            /\ heap' = b.heap
            /\ sent' = Append(sent, b.request.path)
            /\ result' = fin
    /\ UNCHANGED <<pc, stack, events, cancelled, output, client>>

\* the caller changes the URL it passed to New
CallerChangesURL ==
    /\ heap["apiEndpoint"].Path # <<"moved">>
    /\ heap' = [heap EXCEPT !["apiEndpoint"].Path = <<"moved">>]
    /\ UNCHANGED <<pc, call, request, stack, sent, events, cancelled, output, result,
                   client>>

NextClient ==
    \/ MethodCall
    \/ CallerChangesURL

SpecClient == InitClient /\ [][NextClient]_vars

(***************************************************************************)
(* C11. For all tag lists L, including the empty list, decoding the wire   *)
(* string produced by encoding L gives back L: joining the empty list      *)
(* gives the empty string, and splitting the empty string gives the empty  *)
(* list, not a one-element list containing the empty string.               *)
(***************************************************************************)
C11_TagsRoundTrip ==
    /\ Ran("MarshalJSON") =>
          /\ result.value["tags"].s = call.input["tags"].s
          /\ (call.input["tags"].s = <<>> => output["tags"] = <<>>)
    /\ (pc \in {"decoded", "done"} /\ call.name = "UnmarshalJSON"
            /\ call.entity = "TorrentInfos" /\ call.input["tags"] = <<>>) =>
          output.value["tags"].s = <<>>

C13_SentinelRoundTrip ==
    (Ran("GetSpeedFromBytes") /\ call.input = -1) =>
        /\ output = unlimitedSpeedLimit
        /\ result.unlimited
        /\ result.bytes = -1

C13_Witness ==
    /\ Ran("GetSpeedFromBytes")
    /\ call.input = -1
    /\ result.unlimited

(***************************************************************************)
(* C14. Decoding a quantity from a wire integer smaller than -1 is a       *)
(* decode error: no quantity value is produced for such an input, neither  *)
(* by GetSpeedFromBytes nor by the entity decoders that call it for rate   *)
(* and limit fields.                                                       *)
(***************************************************************************)
C14_BelowSentinelIsDecodeError ==
    /\ (pc \in {"speed", "done"} /\ call.name = "GetSpeedFromBytes" /\ call.input < -1) =>
          "Bits" \notin DOMAIN output
    /\ (pc \in {"decoded", "done"} /\ call.name = "UnmarshalJSON"
            /\ \E f \in KindsOf(call.entity).speed : call.input[f] < -1) =>
          IsErr(output.err)

(***************************************************************************)
(* C15. The unlimited sentinel is never confused with a real magnitude:    *)
(* for every non-negative wire integer n, 0 included,                      *)
(* GetSpeedFromBytes(n).Unlimited() is false and its wire form is not -1,  *)
(* and the zero quantity encodes to 0.                                     *)
(***************************************************************************)
NotTheSentinel ==
    /\ ~result.unlimited
    /\ result.bytes # -1
    /\ (call.input = 0 => result.bytes = 0)

C16_SentinelAwareFields ==
    (Ran("UnmarshalJSON") /\ ~IsErr(output.err)) =>
        LET kinds == KindsOf(call.entity)
        IN /\ \A f \in kinds.speed :
                 call.input[f] = -1 =>
                    Unlimited(output.value[f]) /\ result[f] = -1
           /\ \A f \in kinds.bytes :
                 call.input[f] = -1 =>
                    output.value[f] = unlimitedSpeedLimit.Bits /\ result[f] = -1

(***************************************************************************)
(* C17. For every torrent listing wire record R, TorrentInfos.MarshalJSON  *)
(* applied to the result of TorrentInfos.UnmarshalJSON(R) gives a record   *)
(* equal to R field for field: timestamps, durations, byte counts, rates   *)
(* and limits (with -1), and the tag string come back as the same wire     *)
(* values.                                                                 *)
(***************************************************************************)
\* on the records whose integers are -1 or magnitudes float64 holds exactly
C17_ListingRoundTrip ==
    (Ran("UnmarshalJSON") /\ call.entity = "TorrentInfos" /\ ~IsErr(output.err)
        /\ \A f \in IntFieldsOf(TorrentInfosKinds) : call.input[f] \in -1..2^MantBits) =>
        \A f \in IntFieldsOf(TorrentInfosKinds) \cup TorrentInfosKinds.tags :
            result[f] = call.input[f]

(***************************************************************************)
(* C18. For every ListFilters value, the wire parameter map has exactly    *)
(* one key per non-absent filter field and none for absent fields, and     *)
(* GetTorrentList sends it as the URL query string of a GET request with   *)
(* no request body; with only State = active set, the query string is      *)
(* filter=active.                                                          *)
(***************************************************************************)
\* url.QueryUnescape
RECURSIVE QueryUnescape(_)
QueryUnescape(s) ==
    IF s = <<>> THEN <<>>
    ELSE IF Head(s) = "+" THEN <<" ">> \o QueryUnescape(Tail(s))
    ELSE IF Head(s) = "%" /\ Len(s) >= 3
    THEN LET c == CASE SubSeq(s, 2, 3) = <<"2", "6">> -> "&"
                    [] SubSeq(s, 2, 3) = <<"3", "D">> -> "="
                    [] SubSeq(s, 2, 3) = <<"7", "B">> -> "{"
                    [] OTHER -> "}"
         IN <<c>> \o QueryUnescape(SubSeq(s, 4, Len(s)))
    ELSE <<Head(s)>> \o QueryUnescape(Tail(s))

\* the key/value pairs a server reads from a query string
QueryPairs(q) ==
    IF q = <<>> THEN {}
    ELSE LET pieces == Split(q, <<"&">>)
         IN {<<pieces[i][1], QueryUnescape(SubSeq(pieces[i], 3, Len(pieces[i])))>> :
                i \in 1..Len(pieces)}

When(b, S) == IF b THEN S ELSE {}

\* the filters of the call, as the caller wrote them: key and wire value
FiltersGiven ==
    IF call.input.isNil THEN {}
    ELSE LET lf == call.input.lf
         IN When(lf.State.set, {<<"filter", lf.State.v>>})
            \cup When(lf.Category.set, {<<"category", lf.Category.v>>})
            \cup When(lf.Tag.set, {<<"tag", lf.Tag.v>>})
            \cup When(lf.Sort.set, {<<"sort", lf.Sort.v>>})
            \cup When(lf.ReverseSort.set,
                      {<<"reverse", IF lf.ReverseSort.v THEN <<"t", "r", "u", "e">>
                                    ELSE <<"f", "a", "l", "s", "e">>>>})
            \cup When(lf.Limit.set,
                      {<<"limit", IF lf.Limit.v = 0 THEN <<"0">> ELSE <<"1", "2">>>>})
            \cup When(lf.Offset.set, {<<"offset", <<"-", "1">>>>})
            \cup When(~lf.Hashes.isNil,
                      {<<"hashes", IF lf.Hashes.s = <<>> THEN <<>> ELSE <<"a", "|", "b">>>>})

OnlyStateActive ==
    /\ ~call.input.isNil
    /\ call.input.lf = [State |-> Ptr(FilterStateActive), Category |-> AbsentString,
                        Tag |-> AbsentString, Sort |-> AbsentString,
                        ReverseSort |-> AbsentBool, Limit |-> AbsentInt,
                        Offset |-> AbsentInt, Hashes |-> NilSlice]

C18_FiltersBecomeTheQuery ==
    Ran("GetTorrentList") =>
        /\ output.isNil = call.input.isNil
        /\ {<<k, output.m[k]>> : k \in DOMAIN output.m} = FiltersGiven
        /\ Cardinality(DOMAIN output.m) = Cardinality(FiltersGiven)
        /\ request.method = "GET"
        /\ request.path = <<"api/v2", "torrents", "info">>
        /\ ~request.hasBody /\ request.body = <<>> /\ request.ctype = ""
        /\ QueryPairs(request.query) = FiltersGiven
        /\ (OnlyStateActive =>
               request.query = <<"filter", "=", "a", "c", "t", "i", "v", "e">>)

\* the listing was asked for with the active state as its only filter
C18_Witness ==
    /\ Ran("GetTorrentList")
    /\ OnlyStateActive
    /\ DOMAIN output.m = {"filter"}
    /\ request.query = <<"filter", "=", "a", "c", "t", "i", "v", "e">>

(***************************************************************************)
(* C19. Serializing an ApplicationPreferences value for a write emits      *)
(* exactly the keys of the fields the caller set and no key for any absent *)
(* field, for every subset of set fields, including fields set to false, 0 *)
(* or the empty string; with only AlternativeWebuiEnabled = true set, the  *)
(* payload has the single key alternative_webui_enabled.                   *)
(***************************************************************************)
C19_ExactlyTheSetKeys ==
    Ran("SetApplicationPreferences") =>
        /\ DOMAIN result =
              {PreferencesKeys[f] : f \in {g \in DOMAIN PreferencesKeys :
                  IF g = "ScanDirs" THEN ~call.input[g].isNil ELSE call.input[g].set}}
        /\ (call.input = [Locale |-> AbsentString, CreateSubfolderEnabled |-> AbsentBool,
                          AutoDeleteMode |-> AbsentInt, ScanDirs |-> NilMap,
                          AlternativeWebuiEnabled |-> Ptr(TRUE)] =>
               DOMAIN result = {"alternative_webui_enabled"})

(***************************************************************************)
(* C20. AddNewTorrents called with zero files and zero URLs returns a      *)
(* validation error without sending any request; more generally, whenever  *)
(* option or URL validation or payload generation fails, the call returns  *)
(* the error and no network request (and no login) has been issued.        *)
(***************************************************************************)
\* the arguments the documentation of AddNewTorrents rules out
BadURL(u) ==
    \/ u.Scheme \notin {"http", "https", "magnet", "bc"}
    \/ u.Scheme \in {"http", "https"} /\ (u.Host = "" \/ u.Path = "")
    \/ u.Scheme = "magnet" /\ (u.Host # "" \/ u.Path # "" \/ ~u.xt)
    \/ u.Scheme = "bc" /\ u.Host # "bt"

InvalidArguments(a) ==
    \/ a.files = {} /\ a.urls = <<>>
    \/ \E i \in 1..Len(a.urls) : BadURL(a.urls[i])

\* call p is AddNewTorrents on arguments of the caller's choice
AddsTorrents(p) ==
    /\ pc[p] \in {"running", "done"}
    /\ call[p].name = "AddNewTorrents"
    /\ "args" \in DOMAIN call[p]

C20_ValidationBeforeNetwork ==
    \A p \in Procs :
        AddsTorrents(p) =>
            /\ InvalidArguments(call[p].args) =>
                  /\ Done(p)
                  /\ result[p].fin = "error"
                  /\ result[p].err.kind = "validation"
                  /\ sent[p] = <<>>
                  /\ events[p] = <<>>
            /\ (call[p].args.files = {} /\ call[p].args.urls = <<>>) =>
                  result[p].err = ValidationError("no files or URLs provided")
            /\ result[p].err.kind = "validation" => InvalidArguments(call[p].args)

\* AddNewTorrents returned its error for no file and no URL
C20_Witness ==
    \E p \in Procs :
        /\ AddsTorrents(p)
        /\ Done(p)
        /\ call[p].args.files = {}
        /\ call[p].args.urls = <<>>
        /\ result[p].err.kind = "validation"
        /\ sent[p] = <<>>

(***************************************************************************)
(* C21. Every numeric tracker status code the server may send decodes      *)
(* without error, also a code outside the five known ones; the decoded     *)
(* status re-encodes to the same code, and its string form is the decimal  *)
(* literal of the code when the code is not one of the five known.         *)
(***************************************************************************)
C21_EveryStatusCodeDecodes ==
    (pc \in {"tracker", "done"} /\ call.name = "TorrentTracker.UnmarshalJSON"
        /\ urlParse(call.input.url).ok) =>
       /\ ~IsErr(output.err)
       /\ pc = "done" =>
             /\ result.wire.status = call.input.status
             /\ (~KnownStatus(call.input.status) =>
                    result.str = Itoa(call.input.status))

(***************************************************************************)
(* C22. In requestBuild for a POST: a map holding a single entry under the *)
(* empty-string key is sent as the request body verbatim; a map holding a  *)
(* single entry under key "json" is sent as json= followed by the value    *)
(* unchanged; every other non-nil map is sent as the standard              *)
(* percent-encoded key=value form.  The choice depends only on the key set *)
(* of the map, for every value those entries may hold.                     *)
(***************************************************************************)
\* the key/value pairs a server reads from a form body
FormPairs(q) ==
    IF q = <<>> THEN {}
    ELSE LET pieces == Split(q, <<"&">>)
         IN {LET i == IndexOf(pieces[n], <<"=">>)
             IN <<IF i = 1 THEN "" ELSE pieces[n][1],
                  QueryUnescape(SubSeq(pieces[n], i + 1, Len(pieces[n])))>> :
                n \in 1..Len(pieces)}

C22_EncodingByShape ==
    (Ran("requestBuild") /\ call.method = "POST" /\ ~call.input.isNil) =>
        LET m == call.input.m
        IN CASE DOMAIN m = {""} -> request.body = m[""]
             [] DOMAIN m = {"json"} -> request.body = <<"json", "=">> \o m["json"]
             [] OTHER -> FormPairs(request.body) = {<<k, m[k]>> : k \in DOMAIN m}

(***************************************************************************)
(* C23. Every request built with a body declares a Content-Length equal to *)
(* the length of the body attached: for the form-encoded POSTs of          *)
(* requestBuild the content type is application/x-www-form-urlencoded and  *)
(* the length is that of the encoded parameters; for AddNewTorrents the    *)
(* length is that of the multipart payload; a request built without        *)
(* parameters has no body and no content type set by the builder.          *)
(***************************************************************************)
\* the builder attached no body and set no header
NoBodyNoHeaders(r) == ~r.hasBody /\ r.body = <<>> /\ r.ctype = "" /\ r.clen = -1

C23_ContentLengthIsBodyLength ==
    /\ Ran("requestBuild") =>
          /\ (call.method = "POST" /\ ~call.input.isNil) =>
                /\ request.ctype = "application/x-www-form-urlencoded"
                /\ request.clen = Len(request.body)
                /\ request.hasBody = (request.body # <<>>)
          /\ (call.method = "GET" \/ call.input.isNil) => NoBodyNoHeaders(request)
    /\ (Ran("AddNewTorrents") /\ ~IsErr(result)) =>
          /\ request.method = "POST"
          /\ request.ctype = "multipart/form-data"
          /\ request.hasBody
          /\ request.body = output.payload
          /\ request.clen = Len(output.payload)

\* AddNewTorrents built its request for one file and one magnet link
C23_Witness ==
    /\ Ran("AddNewTorrents")
    /\ ~IsErr(result)
    /\ call.args.files = {<<"f">>}
    /\ Len(call.args.urls) = 1
    /\ call.args.options.isNil
    /\ Len(request.body) = 2
    /\ request.clen = 2

(***************************************************************************)
(* C24. In the multipart body built for AddNewTorrents, every file         *)
(* supplied by the caller becomes one part whose form name is "torrents",  *)
(* whose content type is application/x-bittorrent, and whose filename is   *)
(* quoted with backslashes and double quotes escaped.                      *)
(***************************************************************************)
\* the parts of the payload that hold a file
FilePartsOf(payload) == {payload[i] : i \in {j \in 1..Len(payload) : payload[j].kind = "file"}}

C24_FilePartsAreTorrents ==
    (Ran("AddNewTorrents") /\ ~IsErr(result)) =>
        /\ FilePartsOf(request.body) = {createBtFormFile(f) : f \in call.args.files}
        /\ Cardinality({j \in 1..Len(request.body) : request.body[j].kind = "file"})
              = Cardinality(call.args.files)

(***************************************************************************)
(* C25. requestExtract with a non-absent output returns an InternalError   *)
(* (a kind distinct from HTTPError and from transport or decode errors) in *)
(* each of these cases and only in them: the content type is plain text    *)
(* and the target is not a string reference; the content type is JSON and  *)
(* the target is neither a structured-object nor a list reference; the     *)
(* content type is neither plain text nor JSON; the target is not a        *)
(* reference.  A JSON body that fails to decode into a well-shaped target  *)
(* gives a wrapped decode error, not an InternalError.                     *)
(***************************************************************************)
\* call p ended in requestExtract: the frame of this role was answered 200
ExtractedIn(p, role) == Done(p) /\ role \in {"first", "replay"} /\ Answered(p, role, 200)

\* the four cases of a contract violation
ContractViolation(ctype, out) ==
    \/ out = "value"
    \/ ctype \in {"text/plain", "text/plain; charset=UTF-8"} /\ out # "string"
    \/ ctype = "application/json" /\ out \notin {"struct", "slice"}
    \/ ctype \notin {"text/plain", "text/plain; charset=UTF-8", "application/json"}

C25_InternalErrorCases ==
    \A p \in Procs :
        /\ \A role \in {"first", "replay"} :
              (ExtractedIn(p, role) /\ call[p].out # "nil") =>
                 LET content == ContentOf(p, role)
                 IN /\ (result[p].err.kind = "internal")
                          <=> ContractViolation(content.ctype, call[p].out)
                    /\ (content.ctype = "application/json"
                           /\ call[p].out \in {"struct", "slice"}
                           /\ content.kind \in {"syntax", "mismatch"}) =>
                          /\ result[p].err.kind = "decode"
                          /\ result[p].err.chain # <<>>
                          /\ \A i \in 1..Len(result[p].err.chain) : result[p].err.chain[i].w
        /\ (Done(p) /\ result[p].err.kind = "internal") =>
              /\ call[p].out # "nil"
              /\ \E role \in {"first", "replay"} : ExtractedIn(p, role)
              /\ ErrorsAsHTTP(result[p].err) = 0

\* a JSON answer met a string target: the call ended with an InternalError
C25_Witness ==
    \E p \in Procs :
        /\ ExtractedIn(p, "first")
        /\ call[p].out = "string"
        /\ ContentOf(p, "first").ctype = "application/json"
        /\ result[p].fin = "error"
        /\ result[p].err.kind = "internal"

(***************************************************************************)
(* C26. When the caller passes no output target, a 200 response makes the  *)
(* call succeed without reading the response body and without looking at   *)
(* its content type (an unsupported or missing content type is not an      *)
(* error then), and the body is still closed.                              *)
(***************************************************************************)
\* the body of the response of the frame of this role was closed after it came
ClosedAfterResponse(p, role) ==
    \E i \in 1..Len(events[p]) :
        /\ events[p][i][1] = "resp" /\ events[p][i][2] = role
        /\ \E j \in (i + 1)..Len(events[p]) : events[p][j] = <<"close", role>>

C26_NoTargetNoRead ==
    \A p \in Procs :
        \A role \in {"first", "replay"} :
            (ExtractedIn(p, role) /\ call[p].out = "nil") =>
                /\ result[p].fin = "ok"
                /\ result[p].err = NoErr
                /\ output[p] = ZeroValue
                /\ ClosedAfterResponse(p, role)
                /\ result[p].leak = {}

\* a 200 without a content type, whose body cannot be read, ended a call
\* that has no output target
C26_Witness ==
    \E p \in Procs :
        /\ ExtractedIn(p, "first")
        /\ call[p].out = "nil"
        /\ ContentOf(p, "first").ctype = ""
        /\ ContentOf(p, "first").kind = "ioerr"
        /\ result[p].fin = "ok"
        /\ <<"close", "first">> = events[p][Len(events[p])]

(***************************************************************************)
(* C27. In the relogin path the events of one logical call are strictly    *)
(* ordered: the body of the rejected (403) response is closed before the   *)
(* login request is sent, and the replay is sent only after the login has  *)
(* returned success; if the login fails for any reason (transport error or *)
(* non-200 status), the call returns an error that wraps the login's error *)
(* and the original request is never replayed.                             *)
(***************************************************************************)
\* the login of call p has returned an error
LoginFailed(p) == Done(p) /\ EnteredLogin(p) /\ ~Answered(p, "login", 200)

\* the messages of the layers of an error, outermost first
Messages(err) == [i \in 1..Len(err.chain) |-> err.chain[i].msg]

C27_ReloginOrder ==
    \A p \in Procs :
        /\ \A i \in 1..Len(events[p]) :
              events[p][i] = <<"send", "login">> =>
                 \E j \in 1..(i - 1) : \E k \in (j + 1)..(i - 1) :
                    /\ events[p][j][1] = "resp" /\ events[p][j][2] = "first"
                    /\ events[p][j][3] = 403
                    /\ events[p][k] = <<"close", "first">>
        /\ \A i \in 1..Len(events[p]) :
              events[p][i] = <<"send", "replay">> =>
                 \E j \in 1..(i - 1) : \E k \in (j + 1)..(i - 1) :
                    /\ events[p][j] = <<"send", "login">>
                    /\ events[p][k][1] = "resp" /\ events[p][k][2] = "login"
                    /\ events[p][k][3] = 200
        /\ LoginFailed(p) =>
              /\ result[p].fin = "error"
              /\ \A i \in 1..Len(sent[p]) : sent[p][i].role # "replay"
              /\ Len(result[p].err.chain) >= 3
              /\ SubSeq(Messages(result[p].err), 1, 3)
                    = <<"executing request failed", "auto login failed",
                        "executing request failed">>
              /\ \A i \in 1..Len(result[p].err.chain) : result[p].err.chain[i].w
              /\ \A status \in Statuses :
                    Answered(p, "login", status) =>
                        /\ result[p].err.kind = "http"
                        /\ result[p].err.status = status
              /\ (\A status \in Statuses : ~Answered(p, "login", status)) =>
                    /\ result[p].err.kind \in {"transport", "context"}
                    /\ Messages(result[p].err)[4] = "HTTP request failure"

\* the login was answered 500: the call failed with that status under the
\* login's layers, after the rejected body was closed, and without a replay
C27_Witness ==
    \E p \in Procs :
        /\ LoginFailed(p)
        /\ Answered(p, "login", 500)
        /\ events[p][3] = <<"close", "first">>
        /\ events[p][4] = <<"send", "login">>
        /\ Roles(p) = <<"first", "login">>
        /\ ErrorsAsHTTP(result[p].err) = 500

(***************************************************************************)
(* C28. Provided the transport answers every request, every logical        *)
(* endpoint call terminates after at most three round trips (the first     *)
(* send, at most one login, at most one replay); it performs exactly one   *)
(* round trip when the first answer is anything but 403 or when            *)
(* auto-authentication is disabled, and exactly two when the login fails.  *)
(***************************************************************************)
\* every call of Do by call p was answered with a response
TransportAnswered(p) ==
    /\ Done(p)
    /\ result[p].err.kind \notin {"transport", "context"}
    /\ Cardinality({i \in 1..Len(events[p]) : events[p][i][1] = "resp"}) = Len(sent[p])

RoundTrips(p) == Len(sent[p])

RoundTripsBounded ==
    \A p \in Procs :
        /\ RoundTrips(p) <= 3
        /\ WireCount(p, IsLoginRequest) <= 1
        /\ WireCount(p, IsReplay) <= 1
        /\ (TransportAnswered(p) /\ call[p].name # "" /\ ~call[p].autoAuth) =>
              RoundTrips(p) = 1
        /\ (TransportAnswered(p)
               /\ \E status \in Statuses \ {403} : Answered(p, "first", status)) =>
              RoundTrips(p) = 1
        /\ (TransportAnswered(p) /\ LoginFailed(p)) => RoundTrips(p) = 2

C28_TerminatesInThreeRoundTrips ==
    /\ []RoundTripsBounded
    /\ \A p \in Procs : (pc[p] = "running") ~> (pc[p] = "done")

\* a call ended after its three round trips, each of them answered
C28_Witness ==
    \E p \in Procs :
        /\ TransportAnswered(p)
        /\ Roles(p) = <<"first", "login", "replay">>
        /\ RoundTrips(p) = 3

(***************************************************************************)
(* C29. After any sequence of endpoint calls, logins and logouts,          *)
(* successful or failed, the Client's own fields (user, password, base     *)
(* URL) are exactly those set by New: requestBuild composes each request   *)
(* path on a copy of the base URL, so paths never accumulate across calls, *)
(* and the client's URL is a copy independent of the URL value the caller  *)
(* passed to New.                                                          *)
(***************************************************************************)
C29_ClientFieldsKept ==
    /\ client.user = output.user
    /\ client.password = output.password
    /\ heap[client.url] = output.apiEndpoint
    /\ \A i \in 1..Len(sent) :
          /\ Len(sent[i]) = Len(output.apiEndpoint.Path) + 3
          /\ SubSeq(sent[i], 1, Len(output.apiEndpoint.Path)) = output.apiEndpoint.Path
    /\ call # Nothing =>
          /\ request.path = output.apiEndpoint.Path
                               \o <<"api/v2", call.APIName, call.APIMethodName>>
          /\ call.name = "Login" =>
                FormPairs(request.body)
                    = {<<"username", output.user>>, <<"password", output.password>>}

\* a failed login after two other calls, on a Client whose base URL has a
\* path, after the caller changed its own URL
C29_Witness ==
    /\ Len(sent) = 3
    /\ call # Nothing
    /\ call.name = "Login"
    /\ result = "error"
    /\ output.apiEndpoint.Path = <<"qbt">>
    /\ heap["apiEndpoint"].Path = <<"moved">>
    /\ request.path = <<"qbt", "api/v2", "auth", "login">>

(***************************************************************************)
(* C30. The caller's output target is left unchanged whenever the call     *)
(* ends with a transport error, an HTTP-status error, a login failure or   *)
(* an InternalError: it is written only from a response whose status is    *)
(* 200, so the body of a rejected first attempt is never decoded into it.  *)
(***************************************************************************)
\* the output target of call p holds what the answer of this role carried
WrittenFrom(p, role) ==
    /\ Answered(p, role, 200)
    /\ output[p].id = ContentOf(p, role).id
    /\ output[p].form = (IF ContentOf(p, role).ctype = "application/json"
                         THEN "json" ELSE "string")

C30_OutputKeptOnFailure ==
    \A p \in Procs :
        /\ (Done(p) /\ result[p].err.kind \in {"transport", "context", "http", "internal"}) =>
              output[p] = ZeroValue
        /\ LoginFailed(p) => output[p] = ZeroValue
        /\ ~Done(p) => output[p] = ZeroValue
        /\ output[p] # ZeroValue =>
              \E role \in {"first", "replay"} : WrittenFrom(p, role)

\* a call rejected with a body, logged in again, replayed and answered 500:
\* its output target is as it was, though its first answer had a body
C30_Witness ==
    \E p \in Procs :
        /\ Done(p)
        /\ call[p].out = "string"
        /\ Answered(p, "first", 403)
        /\ ContentOf(p, "first").kind = "ok"
        /\ Answered(p, "login", 200)
        /\ Answered(p, "replay", 500)
        /\ ErrorsAsHTTP(result[p].err) = 500
        /\ output[p] = ZeroValue

====
